---- MODULE Spec2Model ----
(***************************************************************************)
(* Model of the Pokemon TCG data pipeline: the pricing normalizer          *)
(* (scripts/fetch-pricing.js) and the merge / matching engine              *)
(* (scripts/merge-data.js).                                                *)
(*                                                                         *)
(* JavaScript strings are sequences of one-character strings, so that      *)
(* case conversion, trimming, padding and the regular expressions of the   *)
(* source are computed character by character.  The values undefined and   *)
(* null are the one-element sequence Undef, which no string equals.        *)
(* Prices are held in tenths (12.5 is 125).                                *)
(***************************************************************************)
EXTENDS Integers, Sequences, FiniteSets, TLC

\* ------------------------------------------------------------------ bounds
\* longest card id drawn for the set-code inference
MaxIdLen == 3
\* most cards in one raw-cards.json
MaxCards == 1
\* most rows in one pricing source
MaxRows == 1
\* most records in one pricing-raw.json read by the merge
MaxRecords == 2

\* --------------------------------------------------------------- characters
LC == <<"a","b","c","d","e","f","g","h","i","j","k","l","m",
        "n","o","p","q","r","s","t","u","v","w","x","y","z">>
UC == <<"A","B","C","D","E","F","G","H","I","J","K","L","M",
        "N","O","P","Q","R","S","T","U","V","W","X","Y","Z">>
Digits == {"0","1","2","3","4","5","6","7","8","9"}
LowerSet == {LC[i] : i \in 1..26}
UpperSet == {UC[i] : i \in 1..26}

Undef == <<"undefined">>
Truthy(s) == s # Undef /\ s # <<>>
\* a || b on strings
Or(a, b) == IF Truthy(a) THEN a ELSE b
\* a ?? b
Coalesce(a, b) == IF a # Undef THEN a ELSE b

LowerOf == [c \in UpperSet |-> LC[CHOOSE i \in 1..26 : UC[i] = c]]
UpperOf == [c \in LowerSet |-> UC[CHOOSE i \in 1..26 : LC[i] = c]]
LowerChar(c) == IF c \in UpperSet THEN LowerOf[c] ELSE c
UpperChar(c) == IF c \in LowerSet THEN UpperOf[c] ELSE c

\* String.prototype.toLowerCase / toUpperCase
toLowerCase(s) == [i \in 1..Len(s) |-> LowerChar(s[i])]
toUpperCase(s) == [i \in 1..Len(s) |-> UpperChar(s[i])]

\* String(x || '')
Str(x) == IF Truthy(x) THEN x ELSE <<>>

\* String.prototype.includes
includes(s, sub) ==
    \E i \in 0..(Len(s) - Len(sub)) : SubSeq(s, i + 1, i + Len(sub)) = sub

\* first index at which sub occurs in s, 0 when it does not
IndexOf(s, sub) ==
    IF includes(s, sub)
    THEN CHOOSE i \in 1..(Len(s) - Len(sub) + 1) :
            /\ SubSeq(s, i, i + Len(sub) - 1) = sub
            /\ \A j \in 1..(i - 1) : SubSeq(s, j, j + Len(sub) - 1) # sub
    ELSE 0

\* String.prototype.replace(pattern, repl) with a string pattern: first occurrence
ReplaceFirst(s, pat, repl) ==
    LET i == IndexOf(s, pat)
    IN IF i = 0 THEN s
       ELSE SubSeq(s, 1, i - 1) \o repl \o SubSeq(s, i + Len(pat), Len(s))

RECURSIVE TrimLeft(_)
TrimLeft(s) == IF s # <<>> /\ Head(s) = " " THEN TrimLeft(Tail(s)) ELSE s
RECURSIVE TrimRight(_)
TrimRight(s) ==
    IF s # <<>> /\ s[Len(s)] = " " THEN TrimRight(SubSeq(s, 1, Len(s) - 1)) ELSE s
\* String.prototype.trim
trim(s) == TrimRight(TrimLeft(s))

RECURSIVE StripLeadingZeros(_)
\* str.replace(/^0+/, '')
StripLeadingZeros(s) ==
    IF s # <<>> /\ Head(s) = "0" THEN StripLeadingZeros(Tail(s)) ELSE s

RECURSIVE StripTrailingDigits(_)
\* str.replace(/(\d+)$/, '')
StripTrailingDigits(s) ==
    IF s # <<>> /\ s[Len(s)] \in Digits
    THEN StripTrailingDigits(SubSeq(s, 1, Len(s) - 1))
    ELSE s

RECURSIVE padStart(_, _, _)
\* String.prototype.padStart with a one-character filler
padStart(s, n, c) == IF Len(s) >= n THEN s ELSE padStart(<<c>> \o s, n, c)

IsLowerAlnum(c) == c \in LowerSet \/ c \in Digits
IsUpperAlnum(c) == c \in UpperSet \/ c \in Digits
IsAlnum(c) == c \in LowerSet \/ c \in UpperSet \/ c \in Digits

\* --------------------------------------------------------- merge-data.js
DEFAULT_LANG == <<"E","N">>

ImageHost == <<"i","m","a","g","e","s",".","p","o","k","e","m","o","n",
               "t","c","g",".","i","o","/">>

\* /^([a-z0-9]+)(?=-)/i : the lengths n >= 1 such that the first n characters
\* are alphanumeric and character n+1 is a hyphen; the greedy group takes the
\* longest.  0 when the expression does not match.
IdPrefixLen(id) ==
    LET ok == {n \in 1..(Len(id) - 1) :
                  /\ \A k \in 1..n : IsAlnum(id[k])
                  /\ id[n + 1] = "-"}
    IN IF ok = {} THEN 0 ELSE CHOOSE n \in ok : \A m \in ok : m <= n

\* /images\.pokemontcg\.io\/(.*?)\//i : leftmost start of the host (any
\* letter case) that is followed by a later slash; the lazy group ends at the
\* first such slash.  Undef when the expression does not match.
UrlSegment(url) ==
    LET h == Len(ImageHost)
        starts == {i \in 1..(Len(url) - h) :
                      /\ toLowerCase(SubSeq(url, i, i + h - 1)) = ImageHost
                      /\ \E j \in (i + h)..Len(url) : url[j] = "/"}
    IN IF starts = {} THEN Undef
       ELSE LET i == CHOOSE x \in starts : \A y \in starts : x <= y
                j == CHOOSE x \in (i + h)..Len(url) :
                        /\ url[x] = "/"
                        /\ \A y \in (i + h)..(x - 1) : url[y] # "/"
            IN SubSeq(url, i + h, j - 1)

toSetCodeFromIdOrUrl_NoUrl(id, imgUrl) ==
    IF Truthy(id) /\ IdPrefixLen(id) > 0
    THEN toLowerCase(SubSeq(id, 1, IdPrefixLen(id)))
    ELSE Undef

toSetCodeFromIdOrUrl(id, imgUrl) ==
    IF Truthy(id) /\ IdPrefixLen(id) > 0
    THEN toLowerCase(SubSeq(id, 1, IdPrefixLen(id)))
    ELSE IF Truthy(imgUrl) /\ UrlSegment(imgUrl) # Undef
         THEN toLowerCase(UrlSegment(imgUrl))
         ELSE Undef

W_reverse == <<"r","e","v","e","r","s","e">>
W_holo == <<"h","o","l","o">>
W_foil == <<"f","o","i","l">>
W_normal == <<"n","o","r","m","a","l">>
W_base == <<"b","a","s","e">>
W_bs == <<"b","s">>
Bar == <<"|">>

normalizePrintingLike(s) ==
    LET v == toLowerCase(Str(s))
    IN IF includes(v, W_reverse) THEN W_reverse
       ELSE IF includes(v, W_holo) \/ includes(v, W_foil) THEN W_holo
       ELSE W_normal

buildPricingKey(groupId, extNumber, printing, lang) ==
    toLowerCase(Str(groupId)) \o Bar \o toUpperCase(Str(extNumber)) \o Bar
        \o toLowerCase(Or(printing, W_normal)) \o Bar
        \o toUpperCase(Or(lang, DEFAULT_LANG))

NonEmpty(v) == v # <<>>

normalizeCardNumber_NoPad(num) ==
    IF ~Truthy(num) THEN << <<>> >>
    ELSE LET str == toUpperCase(num)
         IN SelectSeq(<< str,
                         StripLeadingZeros(str),
                         SelectSeq(str, IsUpperAlnum) >>, NonEmpty)

normalizeCardNumber_DigitsOnly(num) ==
    IF ~Truthy(num) THEN << <<>> >>
    ELSE LET str == toUpperCase(num)
         IN SelectSeq(<< str,
                         StripLeadingZeros(str),
                         padStart(str, 3, "0"),
                         SelectSeq(str, LAMBDA c : c \in Digits) >>, NonEmpty)

\* lines 33-45
normalizeCardNumber(num) ==
    IF ~Truthy(num) THEN << <<>> >>
    ELSE LET str == toUpperCase(num)
         IN SelectSeq(<< str,
                         StripLeadingZeros(str),
                         padStart(str, 3, "0"),
                         SelectSeq(str, IsUpperAlnum) >>, NonEmpty)

normalizeSetId_ThreeVariants(setId) ==
    IF ~Truthy(setId) THEN << <<>> >>
    ELSE LET str == toLowerCase(setId)
         IN SelectSeq(<< str,
                         SelectSeq(str, IsLowerAlnum),
                         StripTrailingDigits(str) >>, NonEmpty)

\* lines 47-60
normalizeSetId(setId) ==
    IF ~Truthy(setId) THEN << <<>> >>
    ELSE LET str == toLowerCase(setId)
         IN SelectSeq(<< str,
                         SelectSeq(str, IsLowerAlnum),
                         ReplaceFirst(str, W_base, W_bs),
                         ReplaceFirst(str, W_bs, W_base),
                         StripTrailingDigits(str),
                         str \o <<"1">> >>, NonEmpty)

\* a set object {id, name}; an absent field is Undef
EmptySet == [id |-> Undef, name |-> Undef]
hasKeys(obj) == obj.id # Undef \/ obj.name # Undef

SetIndexGet_CaseSensitive(sets, code) ==
    LET hit == {i \in 1..Len(sets) : Truthy(sets[i].id) /\ sets[i].id = code}
    IN IF hit = {} THEN 0 ELSE CHOOSE i \in hit : \A j \in hit : j <= i

\* setIndex.get(code) after the loop of lines 97-100: the last set of the
\* list whose id is truthy and lowercases to code; 0 when there is none
SetIndexGet(sets, code) ==
    LET hit == {i \in 1..Len(sets) :
                   Truthy(sets[i].id) /\ toLowerCase(sets[i].id) = code}
    IN IF hit = {} THEN 0 ELSE CHOOSE i \in hit : \A j \in hit : j <= i

\* the pricing of a card: <<>> is null, <<r>> the object r
NoPricing == <<>>

NoMatch == [pricing |-> NoPricing, matchedKey |-> Undef, tried |-> <<>>]

RECURSIVE InnerLoop(_, _, _, _, _, _)
\* lines 138-153, from printing pi on; acc holds pricing, matchedKey and
\* the keys built so far (one per pricingAttempts++)
InnerLoop(setId, cardNum, pv, map, pi, acc) ==
    IF pi > Len(pv) THEN acc
    ELSE LET key == buildPricingKey(setId, cardNum, pv[pi], DEFAULT_LANG)
             tried == Append(acc.tried, key)
         IN IF key \in DOMAIN map
            THEN [pricing |-> <<map[key]>>, matchedKey |-> key, tried |-> tried]
            ELSE InnerLoop(setId, cardNum, pv, map, pi + 1,
                           [acc EXCEPT !.tried = tried])

RECURSIVE MiddleLoop_BreakInner(_, _, _, _, _, _)
MiddleLoop_BreakInner(setId, nv, pv, map, ni, acc) ==
    IF ni > Len(nv) THEN acc
    ELSE MiddleLoop_BreakInner(setId, nv, pv, map, ni + 1,
                               InnerLoop(setId, nv[ni], pv, map, 1, acc))

RECURSIVE MiddleLoop(_, _, _, _, _, _)
\* lines 137-154, from number ni on; a match leaves the labelled outer loop
MiddleLoop(setId, nv, pv, map, ni, acc) ==
    IF ni > Len(nv) THEN acc
    ELSE LET r == InnerLoop(setId, nv[ni], pv, map, 1, acc)
         IN IF r.pricing # NoPricing THEN r
            ELSE MiddleLoop(setId, nv, pv, map, ni + 1, r)

RECURSIVE OuterLoop(_, _, _, _, _, _)
\* lines 136-155, from set variation si on
OuterLoop(sv, nv, pv, map, si, acc) ==
    IF si > Len(sv) THEN acc
    ELSE LET r == MiddleLoop(sv[si], nv, pv, map, 1, acc)
         IN IF r.pricing # NoPricing THEN r
            ELSE OuterLoop(sv, nv, pv, map, si + 1, r)

ResolveSet_NoLookup(card, sets) ==
    IF hasKeys(card.set)
    THEN [finalSet |-> card.set, enriched |-> FALSE, lookup |-> <<>>]
    ELSE [finalSet |-> EmptySet, enriched |-> FALSE, lookup |-> <<>>]

\* lines 113-120: the set of a card
ResolveSet(card, sets) ==
    IF hasKeys(card.set)
    THEN [finalSet |-> card.set, enriched |-> FALSE, lookup |-> <<>>]
    ELSE LET code == toSetCodeFromIdOrUrl(card.id, Or(card.imgSmall, card.imgLarge))
             i == IF Truthy(code) THEN SetIndexGet(sets, code) ELSE 0
         IN [finalSet |-> IF i > 0 THEN sets[i] ELSE EmptySet,
             enriched |-> i > 0,
             lookup |-> IF Truthy(code) THEN <<code>> ELSE <<>>]

SetVariations_ResolvedOnly(card, finalSet) == normalizeSetId(finalSet.id)

\* lines 123-130
SetVariations(card, finalSet) ==
    normalizeSetId(Or(finalSet.id, toSetCodeFromIdOrUrl(card.id, Undef)))
NumberVariations(card) == normalizeCardNumber(card.number)
OwnPrinting(card) ==
    Or(card.printing, Or(card.variant, normalizePrintingLike(card.name)))
PrintingVariations_HoloFirst(card) ==
    << OwnPrinting(card), W_holo, W_normal, W_reverse >>

\* lines 125-130
PrintingVariations(card) == << OwnPrinting(card), W_normal, W_holo, W_reverse >>

FindPricing_Fuzzy(card, finalSet, map) ==
    LET m == OuterLoop(SetVariations(card, finalSet), NumberVariations(card),
                       PrintingVariations(card), map, 1, NoMatch)
        named == {k \in DOMAIN map : Truthy(card.name) /\ map[k].name = card.name}
    IN IF m.pricing # NoPricing \/ named = {} THEN m
       ELSE LET k == CHOOSE x \in named : TRUE
            IN [m EXCEPT !.pricing = <<map[k]>>, !.matchedKey = k]

\* lines 132-155
FindPricing(card, finalSet, map) ==
    OuterLoop(SetVariations(card, finalSet), NumberVariations(card),
              PrintingVariations(card), map, 1, NoMatch)

OutPricing_SetGroupId(r, finalSet, matchedKey) ==
    [f \in DOMAIN r \cup {"groupName", "groupId", "matchedKey"} |->
        CASE f = "groupName" -> Or(r.groupName, Or(finalSet.name, <<>>))
          [] f = "groupId" -> finalSet.id
          [] f = "matchedKey" -> matchedKey
          [] OTHER -> r[f]]

\* lines 193-198: { ...pricing, groupName, groupId, matchedKey }
OutPricing(r, finalSet, matchedKey) ==
    [f \in DOMAIN r \cup {"groupName", "groupId", "matchedKey"} |->
        CASE f = "groupName" -> Or(r.groupName, Or(finalSet.name, <<>>))
          [] f = "groupId" -> r.groupId
          [] f = "matchedKey" -> matchedKey
          [] OTHER -> r[f]]

BuildOut_RawSet(card, finalSet, m) ==
    [id |-> card.id, name |-> card.name, number |-> card.number,
     set |-> [id |-> card.set.id, name |-> card.set.name],
     pricing |-> IF m.pricing # NoPricing
                 THEN <<OutPricing(m.pricing[1], finalSet, m.matchedKey)>>
                 ELSE NoPricing]

\* lines 176-199
BuildOut(card, finalSet, m) ==
    [id |-> card.id, name |-> card.name, number |-> card.number,
     set |-> [id |-> finalSet.id, name |-> finalSet.name],
     pricing |-> IF m.pricing # NoPricing
                 THEN <<OutPricing(m.pricing[1], finalSet, m.matchedKey)>>
                 ELSE NoPricing]

MapAfter_InPlace(map, m, finalSet) ==
    IF m.pricing = NoPricing THEN map
    ELSE [map EXCEPT ![m.matchedKey] =
                        OutPricing(m.pricing[1], finalSet, m.matchedKey)]

\* lines 147-148 and 193-198: pricing is the object of the mapping itself,
\* and the output takes a spread copy of it, so the fields the output adds
\* are written to the copy and the mapping is after the card what it was
MapAfter(map, m, finalSet) == map

\* ------------------------------------------- numbers written by the merge
\* The statistics are IEEE 754 doubles: a ratio c / d of two small counts,
\* times 100, printed by toFixed(1).  A significand of 53 bits is held as
\* <<h, l1, l2, l3, l4>>: an integer part h and four limbs of 13 bits after
\* the binary point, most significant first.
Limb == 8192

DigitChars == <<"0", "1", "2", "3", "4", "5", "6", "7", "8", "9">>

RECURSIVE Decimal(_)
\* String(n) of a natural number n
Decimal(n) ==
    IF n < 10 THEN <<DigitChars[n + 1]>>
    ELSE Append(Decimal(n \div 10), DigitChars[(n % 10) + 1])

\* the least s with c * 2^s >= d, for 1 <= c <= d: c / d = m * 2^-s, 1 <= m < 2
Shift(c, d) == CHOOSE s \in 0..20 : c * 2^s >= d /\ (s = 0 \/ c * 2^(s - 1) < d)

\* carries of a limb vector whose entries overflowed; the last limb has base b4
Carry(v, b4) ==
    LET x3 == v[4] + (v[5] \div b4)
        x2 == v[3] + (x3 \div Limb)
        x1 == v[2] + (x2 \div Limb)
    IN <<v[1] + (x1 \div Limb), x1 % Limb, x2 % Limb, x3 % Limb, v[5] % b4>>

\* the significand of the double c / d (round to nearest, ties to even)
DivSignificand(c, d) ==
    LET r0 == (c * 2^Shift(c, d)) - d
        q1 == (r0 * Limb) \div d
        r1 == (r0 * Limb) % d
        q2 == (r1 * Limb) \div d
        r2 == (r1 * Limb) % d
        q3 == (r2 * Limb) \div d
        r3 == (r2 * Limb) % d
        q4 == (r3 * Limb) \div d
        r4 == (r3 * Limb) % d
        up == 2 * r4 > d \/ (2 * r4 = d /\ q4 % 2 = 1)
    IN Carry(<<1, q1, q2, q3, q4 + (IF up THEN 1 ELSE 0)>>, Limb)

\* v * 100 rounded back to 53 bits: k low bits are dropped from the last limb
Times100(v) ==
    LET p == Carry(<<v[1] * 100, v[2] * 100, v[3] * 100, v[4] * 100,
                     v[5] * 100>>, Limb)
        k == IF p[1] >= 128 THEN 7 ELSE 6
        low == p[5] % (2^k)
        kept == p[5] \div (2^k)
        up == low > 2^(k - 1) \/ (low = 2^(k - 1) /\ kept % 2 = 1)
    IN [k |-> k,
        limbs |-> Carry(<<p[1], p[2], p[3], p[4], kept + (IF up THEN 1 ELSE 0)>>,
                        Limb \div (2^k))]

\* the integer n of ((c / d) * 100).toFixed(1) for which n / 10 is nearest to
\* the double, the larger one on a tie; 0 <= c <= d, 1 <= d
PercentTenths(c, d) ==
    IF c = 0 THEN 0
    ELSE LET s == Shift(c, d)
             p == Times100(DivSignificand(c, d))
             q == Carry(<<p.limbs[1] * 10, p.limbs[2] * 10, p.limbs[3] * 10,
                          p.limbs[4] * 10, p.limbs[5] * 10>>, Limb \div (2^p.k))
             half == IF s >= 1 THEN (q[1] \div (2^(s - 1))) % 2 = 1
                     ELSE q[2] >= Limb \div 2
         IN (q[1] \div (2^s)) + (IF half THEN 1 ELSE 0)

\* ((c / d) * 100).toFixed(1) + '%'
PercentString(c, d) ==
    LET t == PercentTenths(c, d)
    IN Decimal(t \div 10) \o <<".">> \o Decimal(t % 10) \o <<"%">>

Max(a, b) == IF a >= b THEN a ELSE b

\* ------------------------------------------------ the files of the merge
chunkSize == 500

Chunks_DropPartial(cards) ==
    [j \in 1..(Len(cards) \div chunkSize) |->
        SubSeq(cards, (j - 1) * chunkSize + 1, j * chunkSize)]

RECURSIVE ChunkLoop(_, _, _)
\* lines 239-241: for (i = 0; i < length; i += chunkSize) push(slice(i, i + chunkSize))
ChunkLoop(cards, i, chunks) ==
    IF i < Len(cards)
    THEN ChunkLoop(cards, i + chunkSize,
                   Append(chunks, SubSeq(cards, i + 1,
                                         IF i + chunkSize < Len(cards)
                                         THEN i + chunkSize ELSE Len(cards))))
    ELSE chunks

\* lines 237-241
Chunks(cards) == ChunkLoop(cards, 0, <<>>)

\* line 214: the keys of setMap
SetMapIds(cards) ==
    {cards[i].set.id : i \in {j \in 1..Len(cards) :
                                 Truthy(cards[j].set.id) /\ Truthy(cards[j].set.name)}}

\* lines 228-232
PricingStats(attempts, matches) ==
    [totalAttempts |-> attempts, successfulMatches |-> matches,
     successRate |-> PercentString(matches, Max(1, attempts))]

Coverage_NoGuard(withPricing, total) ==
    IF total = 0 THEN <<"N", "a", "N", "%">> ELSE PercentString(withPricing, total)

\* line 223
Coverage(withPricing, total) == PercentString(withPricing, Max(1, total))

\* lines 216-233; the arrays sets, types and rarities and the two fields copied
\* from pricing-raw.json are left out
SearchIndex(cards, withPricing, attempts, matches, now) ==
    [totalCards |-> Len(cards), totalSets |-> Cardinality(SetMapIds(cards)),
     cardsWithPricing |-> withPricing,
     pricingCoverage |-> Coverage(withPricing, Len(cards)),
     lastUpdated |-> now, pricingStats |-> PricingStats(attempts, matches)]

ChunkPayload_Stamped(chunk, idx, total, now) ==
    [cards |-> chunk, chunk |-> idx + now, totalChunks |-> total, lastUpdated |-> now]

\* lines 246-251
ChunkPayload(chunk, idx, total, now) ==
    [cards |-> chunk, chunk |-> idx, totalChunks |-> total, lastUpdated |-> now]

\* lines 255-263
Summary(index, cards, total, withPricing, now) ==
    [totalCards |-> Len(cards), totalSets |-> index.totalSets,
     totalChunks |-> total, cardsWithPricing |-> withPricing,
     pricingCoverage |-> index.pricingCoverage,
     pricingStats |-> index.pricingStats, lastUpdated |-> now]

\* data/ before any run of the merge
EmptyDir == [index |-> <<>>, chunks |-> <<>>, summary |-> <<>>]

\* writeFileSync of tcg-cards-chunk-1.json .. chunk-n.json: a file of a higher
\* number left by an earlier run stays
Overwrite(old, new) ==
    [j \in 1..Max(Len(old), Len(new)) |-> IF j <= Len(new) THEN new[j] ELSE old[j]]

\* ------------------------------------------------------------------- state
VARIABLES
    \* merge-data.js main
    allCards, allSets, pricingMap,   \* data/raw-cards.json, data/pricing-raw.json
    mergePc,                         \* "map" while cards are mapped, then "done"
    enrichedCards,                   \* the cards mapped so far
    lookups,                         \* per card, the code given to setIndex.get
    triedLog,                        \* per card, the keys built in the loops
    cardsWithPricing, setsEnriched, pricingAttempts, successfulMatches,
    rawCardsExists, pricingExists,   \* fs.existsSync of the two inputs
    dataDir,                         \* the index, chunk and summary files
    exitCode,                        \* <<>> while the process runs
    clock,                           \* the calls of new Date() so far
    runsLeft,                        \* the runs of the stage still to come
    \* toSetCodeFromIdOrUrl applied to one (id, imgUrl)
    inId, inUrl, outCode, inferPc,
    \* fetch-pricing.js main
    rows,                            \* the rows of the pricing source
    pricing,                         \* the mapping built by the loop
    rowLog,                          \* per row processed, the record written
    extracted, totalProducts,
    output,                          \* data/pricing-raw.json: <<>> until written
    pricingPc,                       \* "start", "loop", "waiting", "written"
                                     \* or "exit0", "exit1", "exit2"
    TCGCSV_URL,                      \* the environment variable
    argv2,                           \* process.argv[2]
    existingFile,                    \* data/pricing-raw.json before the run
    \* fetch-cards.js fetchCardData
    setsResponse,                    \* what the request of the sets list gives
    fcSets,                          \* sets
    fcPc,                            \* "sets", "loop", "done" or "failed"
    fcCards,                         \* allCards
    processedSets,
    fcLog,                           \* per set tried, what its request gave
    rawCardsFile,                    \* data/raw-cards.json: <<>> or <<rawData>>
    fcExit,                          \* <<>> while the process runs
    \* upload-shopify.js uploadToShopify
    SHOPIFY_STORE, ACCESS_TOKEN,     \* the two environment variables
    dataDirNames,                    \* the names readdirSync('data/') gives
    upPc,                            \* "start", "list", "files" or "done"
    themeId,                         \* <<>> until getMainThemeId returned
    dataFiles,
    upLog,                           \* per file tried, what became of it
    successCount, errorCount,
    requests,                        \* the requests sent, in order
    reads,                           \* the files read, in order
    upExit,                          \* <<>> while the process runs
    \* debug-pricing.js
    MIN_PRICING_ENTRIES,             \* the environment variable
    strictMode,                      \* the mode the run is meant to be in
    pricingFile,                     \* data/pricing-raw.json
    hcPc,                            \* "start" or "done"
    hcExit                           \* <<>> while the process runs

mergeVars == <<allCards, allSets, pricingMap, mergePc, enrichedCards, lookups,
               triedLog, cardsWithPricing, setsEnriched, pricingAttempts,
               successfulMatches, rawCardsExists, pricingExists, dataDir,
               exitCode, clock, runsLeft>>
inferVars == <<inId, inUrl, outCode, inferPc>>
pricingVars == <<rows, pricing, rowLog, extracted, totalProducts, output,
                 pricingPc, TCGCSV_URL, argv2, existingFile>>
fetchVars == <<setsResponse, fcSets, fcPc, fcCards, processedSets, fcLog,
               rawCardsFile, fcExit>>
uploadVars == <<SHOPIFY_STORE, ACCESS_TOKEN, dataDirNames, upPc, themeId,
                dataFiles, upLog, successCount, errorCount, requests, reads,
                upExit>>
healthVars == <<MIN_PRICING_ENTRIES, strictMode, pricingFile, hcPc, hcExit>>
vars == <<mergeVars, inferVars, pricingVars, fetchVars, uploadVars,
          healthVars>>

MergeIdle ==
    /\ allCards = <<>> /\ allSets = <<>> /\ pricingMap = <<>>
    /\ mergePc = "idle" /\ enrichedCards = <<>> /\ lookups = <<>>
    /\ triedLog = <<>> /\ cardsWithPricing = 0 /\ setsEnriched = 0
    /\ pricingAttempts = 0 /\ successfulMatches = 0
    /\ rawCardsExists = FALSE /\ pricingExists = FALSE /\ dataDir = EmptyDir
    /\ exitCode = <<>> /\ clock = 0 /\ runsLeft = 0
FetchIdle ==
    /\ setsResponse = <<>> /\ fcSets = <<>> /\ fcPc = "idle" /\ fcCards = <<>>
    /\ processedSets = 0 /\ fcLog = <<>> /\ rawCardsFile = <<>> /\ fcExit = <<>>
UploadIdle ==
    /\ SHOPIFY_STORE = Undef /\ ACCESS_TOKEN = Undef /\ dataDirNames = <<>>
    /\ upPc = "idle" /\ themeId = <<>> /\ dataFiles = <<>> /\ upLog = <<>>
    /\ successCount = 0 /\ errorCount = 0 /\ requests = <<>> /\ reads = <<>>
    /\ upExit = <<>>
HealthIdle ==
    /\ MIN_PRICING_ENTRIES = Undef /\ strictMode = FALSE
    /\ pricingFile = [state |-> "missing", pricing |-> <<>>]
    /\ hcPc = "idle" /\ hcExit = <<>>
InferIdle == inId = Undef /\ inUrl = Undef /\ outCode = Undef /\ inferPc = "idle"
PricingIdle ==
    /\ rows = <<>> /\ pricing = <<>> /\ rowLog = <<>> /\ extracted = 0
    /\ totalProducts = 0 /\ output = <<>> /\ pricingPc = "idle"
    /\ TCGCSV_URL = Undef /\ argv2 = Undef /\ existingFile = "missing"

\* ------------------------------------------------------ inputs of the merge
S_xy1 == <<"x","y","1">>
S_base5 == <<"b","a","s","e","5">>
S_zz9 == <<"z","z","9">>
S_bs5 == <<"b","s","5">>
N_1 == <<"1">>
N_36 == <<"3","6">>
N_036 == <<"0","3","6">>
T_TeamRocket == <<"T","e","a","m"," ","R","o","c","k","e","t">>
T_XY == <<"X","Y">>
T_Promo == <<"P","r","o","m","o">>
T_Oddish == <<"O","d","d","i","s","h">>
T_HoloOddish == <<"H","o","l","o"," ","O","d","d","i","s","h">>
Id_xy1_1 == <<"x","y","1","-","1">>
Id_base5_36 == <<"b","a","s","e","5","-","3","6">>
Id_zz9_1 == <<"z","z","9","-","1">>
Url_base5 == <<"h","t","t","p","s",":","/","/","i","m","a","g","e","s",".",
               "p","o","k","e","m","o","n","t","c","g",".","i","o","/",
               "b","a","s","e","5","/","3","6",".","p","n","g">>

Card(id, number, name, set, img) ==
    [id |-> id, number |-> number, name |-> name, printing |-> Undef,
     variant |-> Undef, set |-> set, imgSmall |-> img, imgLarge |-> Undef]

CardPool ==
    { Card(Id_xy1_1, N_1, Undef, EmptySet, Undef),
      Card(Id_base5_36, N_36, T_Oddish, EmptySet, Undef),
      Card(Id_base5_36, N_36, T_HoloOddish, EmptySet, Undef),
      Card(Id_base5_36, N_36, T_HoloOddish, [id |-> S_base5, name |-> T_TeamRocket], Undef),
      Card(Id_base5_36, N_36, T_Oddish, [id |-> Undef, name |-> T_Promo], Undef),
      Card(Id_zz9_1, N_1, T_Oddish, EmptySet, Undef),
      Card(N_36, N_36, T_Oddish, EmptySet, Url_base5) }

\* the canonical set list of raw-cards.json; the id of the first set is
\* capitalised, as setIndex lowercases the ids it is keyed by
Registry ==
    << [id |-> <<"B","a","s","e","5">>, name |-> T_TeamRocket],
       [id |-> S_xy1, name |-> T_XY] >>

\* a PricingRecord as fetch-pricing.js writes it (lines 121-139)
PricingRecord(g, n, p, gname, market) ==
    [key |-> g \o Bar \o n \o Bar \o p \o Bar \o DEFAULT_LANG,
     name |-> T_Oddish, groupId |-> g, extNumber |-> n, extractedNumber |-> n,
     printing |-> p, lang |-> DEFAULT_LANG, low |-> 0, mid |-> market,
     high |-> 0, market |-> market, directLow |-> 0, groupName |-> gname]

RecordPool ==
    { PricingRecord(S_xy1, N_1, W_normal, <<>>, 125),
      PricingRecord(S_base5, N_036, W_normal, T_TeamRocket, 30),
      PricingRecord(S_base5, N_036, W_holo, <<>>, 80),
      PricingRecord(S_base5, N_36, W_reverse, <<>>, 45),
      PricingRecord(W_base, N_36, W_normal, <<>>, 10),
      PricingRecord(S_bs5, N_36, W_normal, <<>>, 15),
      PricingRecord(S_zz9, N_1, W_holo, <<>>, 20) }

\* the mapping that holds the records rs, each under its key
MapOf(rs) == [k \in {r.key : r \in rs} |-> CHOOSE r \in rs : r.key = k]

SeqsUpTo(S, n) == UNION {[1..k -> S] : k \in 0..n}

\* ----------------------------------------------------------- merge-data.js
\* the counters and logs of a process that has not mapped a card yet
FreshProcess ==
    /\ enrichedCards = <<>> /\ lookups = <<>> /\ triedLog = <<>>
    /\ cardsWithPricing = 0 /\ setsEnriched = 0
    /\ pricingAttempts = 0 /\ successfulMatches = 0
    /\ exitCode = <<>>

MergeInit ==
    /\ \/ /\ rawCardsExists = TRUE /\ pricingExists = TRUE
          /\ allCards \in SeqsUpTo(CardPool, MaxCards)
          /\ allSets = Registry
          /\ pricingMap \in {MapOf(rs) : rs \in {x \in SUBSET RecordPool :
                                                Cardinality(x) <= MaxRecords}}
       \/ /\ \E here \in {<<FALSE, TRUE>>, <<TRUE, FALSE>>, <<FALSE, FALSE>>} :
                /\ rawCardsExists = here[1]
                /\ pricingExists = here[2]
          /\ allCards = <<>> /\ allSets = <<>> /\ pricingMap = <<>>
    /\ mergePc = "start"
    /\ FreshProcess
    /\ dataDir = EmptyDir /\ clock = 0 /\ runsLeft = 1
    /\ InferIdle /\ PricingIdle /\ FetchIdle /\ UploadIdle /\ HealthIdle

InputsPresent_PricingOptional(hasCards, hasPricing) == hasCards

\* lines 74-75: neither existsSync check throws
InputsPresent(hasCards, hasPricing) == hasCards /\ hasPricing

\* lines 68-105: both inputs exist and are loaded
StartMerge ==
    /\ mergePc = "start"
    /\ InputsPresent(rawCardsExists, pricingExists)
    /\ mergePc' = "map"
    /\ UNCHANGED <<allCards, allSets, pricingMap, enrichedCards, lookups,
                   triedLog, cardsWithPricing, setsEnriched, pricingAttempts,
                   successfulMatches, rawCardsExists, pricingExists, dataDir,
                   exitCode, clock, runsLeft, inferVars, pricingVars,
                   fetchVars, uploadVars, healthVars>>

\* lines 74-75 throw, line 275 catches: process.exit(1)
MissingInput ==
    /\ mergePc = "start"
    /\ ~InputsPresent(rawCardsExists, pricingExists)
    /\ mergePc' = "failed"
    /\ exitCode' = <<1>>
    /\ UNCHANGED <<allCards, allSets, pricingMap, enrichedCards, lookups,
                   triedLog, cardsWithPricing, setsEnriched, pricingAttempts,
                   successfulMatches, rawCardsExists, pricingExists, dataDir,
                   clock, runsLeft, inferVars, pricingVars,
                   fetchVars, uploadVars, healthVars>>

\* one call of the callback of allCards.map (lines 107-202)
ProcessCard ==
    /\ mergePc = "map"
    /\ Len(enrichedCards) < Len(allCards)
    /\ LET card == allCards[Len(enrichedCards) + 1]
           rs == ResolveSet(card, allSets)
           m == FindPricing(card, rs.finalSet, pricingMap)
       IN /\ enrichedCards' = Append(enrichedCards, BuildOut(card, rs.finalSet, m))
          /\ pricingMap' = MapAfter(pricingMap, m, rs.finalSet)
          /\ lookups' = Append(lookups, rs.lookup)
          /\ triedLog' = Append(triedLog, m.tried)
          /\ setsEnriched' = setsEnriched + (IF rs.enriched THEN 1 ELSE 0)
          /\ pricingAttempts' = pricingAttempts + Len(m.tried)
          /\ successfulMatches' = successfulMatches
                                    + (IF m.pricing # NoPricing THEN 1 ELSE 0)
          /\ cardsWithPricing' = cardsWithPricing
                                    + (IF m.pricing # NoPricing THEN 1 ELSE 0)
    /\ UNCHANGED <<allCards, allSets, mergePc, rawCardsExists,
                   pricingExists, dataDir, exitCode, clock, runsLeft,
                   inferVars, pricingVars,
                   fetchVars, uploadVars, healthVars>>

\* the map has returned: lines 204-273 write the index, the chunks and the
\* summary, each with the time of its own new Date(), and main returns
FinishMerge ==
    /\ mergePc = "map"
    /\ Len(enrichedCards) = Len(allCards)
    /\ LET index == SearchIndex(enrichedCards, cardsWithPricing,
                                pricingAttempts, successfulMatches, clock)
           chunks == Chunks(enrichedCards)
           total == Len(chunks)
           files == [j \in 1..total |->
                        ChunkPayload(chunks[j], j, total, clock + j)]
       IN /\ dataDir' = [index |-> <<index>>,
                         chunks |-> Overwrite(dataDir.chunks, files),
                         summary |-> <<Summary(index, enrichedCards, total,
                                               cardsWithPricing,
                                               clock + total + 1)>>]
          /\ clock' = clock + total + 2
    /\ mergePc' = "done"
    /\ exitCode' = <<0>>
    /\ UNCHANGED <<allCards, allSets, pricingMap, enrichedCards, lookups,
                   triedLog, cardsWithPricing, setsEnriched, pricingAttempts,
                   successfulMatches, rawCardsExists, pricingExists, runsLeft,
                   inferVars, pricingVars,
                   fetchVars, uploadVars, healthVars>>

\* the stage is run again: a new process over data/ as the last run left it,
\* with the same two inputs or after one of them was removed
Rerun ==
    /\ mergePc \in {"done", "failed"}
    /\ runsLeft > 0
    /\ runsLeft' = runsLeft - 1
    /\ mergePc' = "start"
    /\ enrichedCards' = <<>> /\ lookups' = <<>> /\ triedLog' = <<>>
    /\ cardsWithPricing' = 0 /\ setsEnriched' = 0
    /\ pricingAttempts' = 0 /\ successfulMatches' = 0
    /\ exitCode' = <<>>
    /\ \E gone \in {<<FALSE, FALSE>>, <<TRUE, FALSE>>, <<FALSE, TRUE>>} :
          /\ rawCardsExists' = (rawCardsExists /\ ~gone[1])
          /\ pricingExists' = (pricingExists /\ ~gone[2])
    /\ UNCHANGED <<allCards, allSets, pricingMap, dataDir, clock,
                   inferVars, pricingVars,
                   fetchVars, uploadVars, healthVars>>

MergeNext == StartMerge \/ MissingInput \/ ProcessCard \/ FinishMerge \/ Rerun
SpecMerge == MergeInit /\ [][MergeNext]_vars

\* ------------------------------------ the end of main on longer card lists
MaxTailCards == 80

TailRecord == PricingRecord(S_xy1, N_1, W_normal, <<>>, 125)

\* card i of a raw list whose first k cards are cards of xy1 with number 1 and
\* whose other cards carry neither a set code nor a number
TailRaw(i, k) ==
    IF i <= k
    THEN Card(S_xy1 \o <<"-">> \o Decimal(i), N_1, Undef, EmptySet, Undef)
    ELSE Card(Decimal(i), Undef, Undef, EmptySet, Undef)

\* the keys built for TailRaw(i, k): the first one hits, or none of four does
TailTried(i, k) ==
    IF i <= k THEN <<TailRecord.key>>
    ELSE <<buildPricingKey(<<>>, <<>>, W_normal, DEFAULT_LANG),
           buildPricingKey(<<>>, <<>>, W_normal, DEFAULT_LANG),
           buildPricingKey(<<>>, <<>>, W_holo, DEFAULT_LANG),
           buildPricingKey(<<>>, <<>>, W_reverse, DEFAULT_LANG)>>

\* the card the map callback returns for TailRaw(i, k)
TailOut(i, k) ==
    IF i <= k
    THEN BuildOut(TailRaw(i, k), Registry[2],
                  [pricing |-> <<TailRecord>>, matchedKey |-> TailRecord.key,
                   tried |-> TailTried(i, k)])
    ELSE BuildOut(TailRaw(i, k), EmptySet, NoMatch)

\* the lengths of the lists: the short ones, and those around one and two chunks
TailSizes ==
    (0..MaxTailCards) \cup {chunkSize - 1, chunkSize, chunkSize + 1,
                            2 * chunkSize, 2 * chunkSize + 1}

\* main after the last call of the map callback (line 202), on a list of n
\* cards of which the first k found a price
TailInit ==
    /\ \E n \in TailSizes :
         \E k \in (IF n <= MaxTailCards THEN 0..n ELSE {0, n}) :
            /\ allCards = [i \in 1..n |-> TailRaw(i, k)]
            /\ enrichedCards = [i \in 1..n |-> TailOut(i, k)]
            /\ lookups = [i \in 1..n |-> IF i <= k THEN <<S_xy1>> ELSE <<>>]
            /\ triedLog = [i \in 1..n |-> TailTried(i, k)]
            /\ cardsWithPricing = k /\ successfulMatches = k
            /\ setsEnriched = k
            /\ pricingAttempts = k + 4 * (n - k)
    /\ allSets = Registry
    /\ pricingMap = MapOf({TailRecord})
    /\ mergePc = "map"
    /\ rawCardsExists = TRUE /\ pricingExists = TRUE
    /\ dataDir = EmptyDir /\ exitCode = <<>> /\ clock = 0 /\ runsLeft = 0
    /\ InferIdle /\ PricingIdle /\ FetchIdle /\ UploadIdle /\ HealthIdle

TailNext == FinishMerge
SpecTail == TailInit /\ [][TailNext]_vars

\* ------------------------------------- the merge run again on a new list
\* the lengths of the card lists: none, one card, one chunk, and a card more
\* than one and than two chunks
RunSizes == {0, 1, chunkSize, chunkSize + 1, 2 * chunkSize + 1}

\* main after the last call of the map callback, on an empty data/, with one
\* more run of the stage to come
RerunsInit ==
    /\ \E n \in RunSizes :
         \E k \in {0, n} :
            /\ allCards = [i \in 1..n |-> TailRaw(i, k)]
            /\ enrichedCards = [i \in 1..n |-> TailOut(i, k)]
            /\ lookups = [i \in 1..n |-> IF i <= k THEN <<S_xy1>> ELSE <<>>]
            /\ triedLog = [i \in 1..n |-> TailTried(i, k)]
            /\ cardsWithPricing = k /\ successfulMatches = k
            /\ setsEnriched = k
            /\ pricingAttempts = k + 4 * (n - k)
    /\ allSets = Registry
    /\ pricingMap = MapOf({TailRecord})
    /\ mergePc = "map"
    /\ rawCardsExists = TRUE /\ pricingExists = TRUE
    /\ dataDir = EmptyDir /\ exitCode = <<>> /\ clock = 0 /\ runsLeft = 1
    /\ InferIdle /\ PricingIdle /\ FetchIdle /\ UploadIdle /\ HealthIdle

\* raw-cards.json was fetched anew and the stage is run again over data/ as
\* the last run left it: a new process has mapped the n cards of the new list
\* (lines 68-202) and stands before the writing of its files
NextRun ==
    /\ mergePc = "done"
    /\ runsLeft > 0
    /\ runsLeft' = runsLeft - 1
    /\ \E n \in RunSizes :
         \E k \in {0, n} :
            /\ allCards' = [i \in 1..n |-> TailRaw(i, k)]
            /\ enrichedCards' = [i \in 1..n |-> TailOut(i, k)]
            /\ lookups' = [i \in 1..n |-> IF i <= k THEN <<S_xy1>> ELSE <<>>]
            /\ triedLog' = [i \in 1..n |-> TailTried(i, k)]
            /\ cardsWithPricing' = k /\ successfulMatches' = k
            /\ setsEnriched' = k
            /\ pricingAttempts' = k + 4 * (n - k)
    /\ mergePc' = "map"
    /\ exitCode' = <<>>
    /\ UNCHANGED <<allSets, pricingMap, rawCardsExists, pricingExists, dataDir,
                   clock, inferVars, pricingVars, fetchVars, uploadVars,
                   healthVars>>

RerunsNext == FinishMerge \/ NextRun
SpecReruns == RerunsInit /\ [][RerunsNext]_vars

\* ------------------------------------------ the merge over card numbers
MaxNumberRecords == 2

N_A_1 == <<"a", "-", "1">>
N_A1 == <<"A", "1">>

\* the number field of a card of raw-cards.json
NumberPool ==
    {Undef, <<"1">>, <<"0", "1">>, <<"0", "0", "1">>, <<"0">>, N_A_1,
     <<"1", "a">>, <<"0", "/", "9">>}

\* records of group xy1 under numbers the pool may lead to
NumberRecords ==
    {PricingRecord(S_xy1, n, W_normal, <<>>, 125) :
        n \in {<<>>, <<"1">>, <<"0", "1">>, <<"0", "0", "1">>, N_A1,
               <<"A", "-", "1">>, <<"9">>}}

NumbersInit ==
    /\ \E n \in NumberPool :
          allCards = <<Card(Id_xy1_1, n, Undef, [id |-> S_xy1, name |-> T_XY],
                            Undef)>>
    /\ allSets = Registry
    /\ pricingMap \in {MapOf(rs) : rs \in {x \in SUBSET NumberRecords :
                                          Cardinality(x) <= MaxNumberRecords}}
    /\ rawCardsExists = TRUE /\ pricingExists = TRUE
    /\ mergePc = "start"
    /\ FreshProcess
    /\ dataDir = EmptyDir /\ clock = 0 /\ runsLeft = 1
    /\ InferIdle /\ PricingIdle /\ FetchIdle /\ UploadIdle /\ HealthIdle

SpecNumbers == NumbersInit /\ [][MergeNext]_vars

\* --------------------------------------------- the merge over printings
MaxPrintRecords == 2

P_Reverse == <<"R", "e", "v", "e", "r", "s", "e">>

\* one card of set xy1, number 1, with a printing field, a variant field and
\* a name that are absent, empty or name a printing
PrintingCards ==
    {[Card(Id_xy1_1, N_1, nm, [id |-> S_xy1, name |-> T_XY], Undef)
        EXCEPT !.printing = p, !.variant = v] :
        p \in {Undef, <<>>, P_Reverse, W_holo},
        v \in {Undef, W_holo, W_normal},
        nm \in {Undef, T_Oddish, T_HoloOddish}}

PrintingRecords ==
    {PricingRecord(S_xy1, N_1, p, <<>>, 125) : p \in {W_normal, W_holo, W_reverse}}

PrintingsInit ==
    /\ \E c \in PrintingCards : allCards = <<c>>
    /\ allSets = Registry
    /\ pricingMap \in {MapOf(rs) : rs \in {x \in SUBSET PrintingRecords :
                                          Cardinality(x) <= MaxPrintRecords}}
    /\ rawCardsExists = TRUE /\ pricingExists = TRUE
    /\ mergePc = "start"
    /\ FreshProcess
    /\ dataDir = EmptyDir /\ clock = 0 /\ runsLeft = 1
    /\ InferIdle /\ PricingIdle /\ FetchIdle /\ UploadIdle /\ HealthIdle

SpecPrintings == PrintingsInit /\ [][MergeNext]_vars

\* ---------------------------------- the merge over two cards of one set
MaxPairRecords == 1

\* the cards of the pool that bear the id base5-36
PairCards == {c \in CardPool : c.id = Id_base5_36}

PairInit ==
    /\ allCards \in [1..2 -> PairCards]
    /\ allSets = Registry
    /\ pricingMap \in {MapOf(rs) : rs \in {x \in SUBSET RecordPool :
                                          Cardinality(x) <= MaxPairRecords}}
    /\ rawCardsExists = TRUE /\ pricingExists = TRUE
    /\ mergePc = "start"
    /\ FreshProcess
    /\ dataDir = EmptyDir /\ clock = 0 /\ runsLeft = 1
    /\ InferIdle /\ PricingIdle /\ FetchIdle /\ UploadIdle /\ HealthIdle

SpecPair == PairInit /\ [][MergeNext]_vars

\* ------------------------------------- toSetCodeFromIdOrUrl as a function
IdAlphabet == {"b", "X", "5", "-", "_"}
IdPool == SeqsUpTo(IdAlphabet, MaxIdLen) \cup {Undef, Id_base5_36}
UrlPool ==
    { Undef, <<>>, Url_base5,
      <<"h","t","t","p","s",":","/","/","I","M","A","G","E","S",".","P","o","k",
        "e","m","o","n","T","C","G",".","i","o","/","X","Y","1","/","1","_",
        "h","i","r","e","s",".","p","n","g">>,
      <<"h","t","t","p","s",":","/","/","i","m","a","g","e","s",".","p","o","k",
        "e","m","o","n","t","c","g",".","i","o","/","b","a","s","e","5">>,
      <<"h","t","t","p","s",":","/","/","i","m","a","g","e","s",".","p","o","k",
        "e","m","o","n","t","c","g",".","i","o","/","/","3","6",".","p","n","g">>,
      <<"h","t","t","p","s",":","/","/","e","x","a","m","p","l","e",".","c","o",
        "m","/","b","a","s","e","5","/","3","6",".","p","n","g">> }

InferInit ==
    /\ inId \in IdPool
    /\ inUrl \in UrlPool
    /\ outCode = Undef
    /\ inferPc = "call"
    /\ MergeIdle /\ PricingIdle /\ FetchIdle /\ UploadIdle /\ HealthIdle

InferCall ==
    /\ inferPc = "call"
    /\ outCode' = toSetCodeFromIdOrUrl(inId, inUrl)
    /\ inferPc' = "returned"
    /\ UNCHANGED <<inId, inUrl, mergeVars, pricingVars, fetchVars, uploadVars, healthVars>>

InferNext == InferCall
SpecInfer == InferInit /\ [][InferNext]_vars

\* ---------------------------------------------------------- fetch-pricing.js
DigitVal == [c \in Digits |->
               CASE c = "0" -> 0 [] c = "1" -> 1 [] c = "2" -> 2 [] c = "3" -> 3
                 [] c = "4" -> 4 [] c = "5" -> 5 [] c = "6" -> 6 [] c = "7" -> 7
                 [] c = "8" -> 8 [] c = "9" -> 9]

RECURSIVE LeadingDigits(_)
LeadingDigits(s) ==
    IF s # <<>> /\ Head(s) \in Digits
    THEN <<Head(s)>> \o LeadingDigits(Tail(s))
    ELSE <<>>

RECURSIVE DigitsValue(_)
DigitsValue(s) ==
    IF s = <<>> THEN 0
    ELSE 10 * DigitsValue(SubSeq(s, 1, Len(s) - 1)) + DigitVal[s[Len(s)]]

\* the value of NaN and of the infinities, which Number.isFinite rejects
NotFinite == -1

\* Number.parseFloat(String(x)), in tenths: leading blanks are skipped, then
\* the longest prefix of digits with an optional fraction is read (the price
\* texts of the model carry at most one fractional digit); NotFinite when no
\* number can be read, as for 'undefined', '', 'N/A' and 'Infinity'
ParseFloat(x) ==
    LET t == TrimLeft(x)
        ip == LeadingDigits(t)
        rest == SubSeq(t, Len(ip) + 1, Len(t))
        fp == IF rest # <<>> /\ Head(rest) = "." THEN LeadingDigits(Tail(rest))
              ELSE <<>>
    IN IF ip = <<>> /\ fp = <<>> THEN NotFinite
       ELSE 10 * DigitsValue(ip) + (IF fp = <<>> THEN 0 ELSE DigitVal[fp[1]])

parseFloatSafe_NoCheck(x, def) == ParseFloat(x)

parseFloatSafe(x, def) ==
    LET n == ParseFloat(x)
    IN IF n # NotFinite THEN n ELSE def

\* String(s ?? '').trim()
cleanStr(s) == trim(Coalesce(s, <<>>))

toKey_NoGroup(groupId, extNumber, printing, lang) ==
    Bar \o cleanStr(extNumber) \o Bar
        \o toLowerCase(Or(printing, W_normal)) \o Bar \o lang

\* lines 35-37
toKey(groupId, extNumber, printing, lang) ==
    toLowerCase(Or(groupId, <<>>)) \o Bar \o cleanStr(extNumber) \o Bar
        \o toLowerCase(Or(printing, W_normal)) \o Bar \o lang

\* the longest run of digits of s that starts at position i
DigitRun(s, i) == LeadingDigits(SubSeq(s, i, Len(s)))

RECURSIVE SkipBlanks(_, _)
SkipBlanks(s, j) == IF j <= Len(s) /\ s[j] = " " THEN SkipBlanks(s, j + 1) ELSE j

\* (\s|$) at position j
EndOrBlank(s, j) == j > Len(s) \/ s[j] = " "

\* (?:\s*\/\s*\d{1,3})?(\s|$) at position j
TotalThenEnd(s, j) ==
    LET j1 == SkipBlanks(s, j)
        j2 == SkipBlanks(s, j1 + 1)
        e == Len(DigitRun(s, j2))
    IN /\ j1 <= Len(s) /\ s[j1] = "/"
       /\ e \in 1..3
       /\ EndOrBlank(s, j2 + e)

\* /(^|\s)(\d{1,3})(?:\s*\/\s*\d{1,3})?(\s|$)/ : group 2 of the leftmost match
extractNumberFromName(name) ==
    LET ok == {i \in 1..Len(name) :
                 /\ i = 1 \/ name[i - 1] = " "
                 /\ Len(DigitRun(name, i)) \in 1..3
                 /\ LET j == i + Len(DigitRun(name, i))
                    IN EndOrBlank(name, j) \/ TotalThenEnd(name, j)}
    IN IF ok = {} THEN Undef
       ELSE DigitRun(name, CHOOSE i \in ok : \A k \in ok : i <= k)

\* a row of the pricing source; a field the row does not carry is Undef
RowFields ==
    {"groupId", "setId", "group_id", "set_code", "groupName", "setName",
     "group_name", "set_name", "printing", "subTypeName", "finish", "lang",
     "language", "extNumber", "number", "cardNumber", "name", "productName",
     "low", "lowPrice", "lowest_price", "mid", "market", "median", "high",
     "highPrice", "highest_price", "avg", "mean", "directLow", "direct_low"}

\* a || b || c || d
Or4(a, b, c, d) == Or(a, Or(b, Or(c, d)))

\* lines 102-139: the record written for one row
NormalizeRow(row) ==
    LET groupId == cleanStr(Or4(row.groupId, row.setId, row.group_id, row.set_code))
        groupName == cleanStr(Or4(row.groupName, row.setName, row.group_name,
                                  row.set_name))
        printing == toLowerCase(cleanStr(Or4(row.printing, row.subTypeName,
                                             row.finish, W_normal)))
        lang == toUpperCase(cleanStr(Or(row.lang, Or(row.language, DEFAULT_LANG))))
        extNumber == cleanStr(Or(row.extNumber, Or(row.number, row.cardNumber)))
        name == cleanStr(Or(row.name, row.productName))
        low == parseFloatSafe(Coalesce(row.low, Coalesce(row.lowPrice,
                                                         row.lowest_price)), 0)
        mid == parseFloatSafe(Coalesce(row.mid, Coalesce(row.market, row.median)), 0)
        high == parseFloatSafe(Coalesce(row.high, Coalesce(row.highPrice,
                                                           row.highest_price)), 0)
        marketSrc == Coalesce(row.market, Coalesce(row.avg, row.mean))
        \* row.market ?? row.avg ?? row.mean ?? mid, with mid the default:
        \* parseFloat of the number mid is mid
        market == IF marketSrc = Undef THEN mid ELSE parseFloatSafe(marketSrc, mid)
        directSrc == Coalesce(row.directLow, row.direct_low)
        \* row.directLow ?? row.direct_low ?? 0
        directLow == IF directSrc = Undef THEN 0 ELSE parseFloatSafe(directSrc, 0)
        extractedNumber == Or(extNumber, extractNumberFromName(name))
        key == toKey(groupId, Or(extractedNumber, extNumber),
                     Or(printing, W_normal), Or(lang, DEFAULT_LANG))
    IN [key |-> key, name |-> name, groupId |-> groupId, extNumber |-> extNumber,
        extractedNumber |-> extractedNumber,
        printing |-> Or(printing, W_normal), lang |-> Or(lang, DEFAULT_LANG),
        low |-> low, mid |-> mid, high |-> high, market |-> market,
        directLow |-> directLow, groupName |-> Or(groupName, <<>>)]

\* pricing[key] = record
Put(map, key, rec) ==
    [k \in DOMAIN map \cup {key} |-> IF k = key THEN rec ELSE map[k]]

BaseRow == [f \in RowFields |-> Undef]
T_Oddish36 == <<"O","d","d","i","s","h"," ","3","6","/","1","0","2">>

\* rows that differ in the fields the key is built from
KeyRows ==
    { [BaseRow EXCEPT !.groupId = g, !.extNumber = n, !.subTypeName = p,
                      !.lang = l, !.name = T_Oddish36, !.market = <<"3">>] :
        g \in {S_base5, <<" ","B","a","s","e","5"," ">>},
        n \in {N_36, <<"t","g","0","1">>, Undef},
        p \in {Undef, <<"N","o","r","m","a","l">>,
               <<"H","o","l","o","f","o","i","l">>,
               <<"R","e","v","e","r","s","e"," ","H","o","l","o","f","o","i","l">>},
        l \in {Undef, <<"e","n">>} }

\* rows that differ in the price fields
PriceRows ==
    { [BaseRow EXCEPT !.groupId = S_base5, !.extNumber = N_36, !.low = a,
                      !.mid = b, !.market = c, !.directLow = d, !.highPrice = h] :
        a \in {Undef, <<"a","b","c">>, <<"1","2",".","5">>},
        b \in {Undef, <<"7">>},
        c \in {Undef, <<"N","/","A">>, <<"3">>},
        d \in {Undef, <<>>},
        h \in {Undef, <<"I","n","f","i","n","i","t","y">>} }

RowPool == KeyRows \cup PriceRows

\* a path given as argument
LocalPath == <<"s", "r", "c", ".", "j", "s", "o", "n">>

PricingInit ==
    /\ rows \in SeqsUpTo(RowPool, MaxRows)
    /\ pricing = <<>> /\ rowLog = <<>>
    /\ extracted = 0 /\ totalProducts = 0
    /\ output = <<>>
    /\ pricingPc = "loop"
    /\ TCGCSV_URL = Undef /\ argv2 = LocalPath /\ existingFile = "missing"
    /\ MergeIdle /\ InferIdle /\ FetchIdle /\ UploadIdle /\ HealthIdle

\* lines 86-89: a source without rows ends the run
NoRows ==
    /\ pricingPc = "loop"
    /\ rows = <<>>
    /\ pricingPc' = "exit1"
    /\ UNCHANGED <<TCGCSV_URL, argv2, existingFile,
                   rows, pricing, rowLog, extracted, totalProducts, output,
                   mergeVars, inferVars,
                   fetchVars, uploadVars, healthVars>>

\* one turn of the loop of lines 100-143
ProcessRow ==
    /\ pricingPc = "loop"
    /\ Len(rowLog) < Len(rows)
    /\ LET row == rows[Len(rowLog) + 1]
           rec == NormalizeRow(row)
       IN /\ pricing' = Put(pricing, rec.key, rec)
          /\ rowLog' = Append(rowLog, rec)
          /\ extracted' = extracted
                + (IF Truthy(rec.extractedNumber) /\ ~Truthy(rec.extNumber)
                   THEN 1 ELSE 0)
          /\ totalProducts' = totalProducts + 1
    /\ UNCHANGED <<TCGCSV_URL, argv2, existingFile,
                   rows, output, pricingPc, mergeVars, inferVars,
                   fetchVars, uploadVars, healthVars>>

\* lines 145-171
WriteOutput ==
    /\ pricingPc = "loop"
    /\ rows # <<>>
    /\ Len(rowLog) = Len(rows)
    /\ output' = << [totalProducts |-> totalProducts,
                     pricingEntries |-> Cardinality(DOMAIN pricing),
                     numbersExtracted |-> extracted,
                     pricing |-> pricing] >>
    /\ pricingPc' = "written"
    /\ UNCHANGED <<TCGCSV_URL, argv2, existingFile,
                   rows, pricing, rowLog, extracted, totalProducts,
                   mergeVars, inferVars,
                   fetchVars, uploadVars, healthVars>>

PricingNext == NoRows \/ ProcessRow \/ WriteOutput
SpecPricing == PricingInit /\ [][PricingNext]_vars

\* ------------------------------------------- sources with several rows
MaxSourceRows == 2

\* rows of one card: the group id in two spellings, the number given, given
\* in lowercase letters or left to the name
SameCardRows ==
    { [BaseRow EXCEPT !.groupId = g, !.extNumber = n, !.name = T_Oddish36,
                      !.market = <<"3">>] :
        g \in {S_base5, <<" ","B","a","s","e","5"," ">>},
        n \in {N_36, <<"t","g","0","1">>, Undef} }

SourceInit ==
    /\ rows \in SeqsUpTo(SameCardRows, MaxSourceRows)
    /\ pricing = <<>> /\ rowLog = <<>>
    /\ extracted = 0 /\ totalProducts = 0
    /\ output = <<>>
    /\ pricingPc = "loop"
    /\ TCGCSV_URL = Undef /\ argv2 = LocalPath /\ existingFile = "missing"
    /\ MergeIdle /\ InferIdle /\ FetchIdle /\ UploadIdle /\ HealthIdle

SpecSource == SourceInit /\ [][PricingNext]_vars

\* ------------------------------------------------------------ fetch-cards.js
MaxSets == 3

\* the sets upstream knows and the cards of each
SetAlpha == [id |-> "alpha", name |-> "Alpha"]
SetBeta == [id |-> "beta", name |-> "Beta"]
UpstreamSets == {SetAlpha, SetBeta}
UpstreamCards(set) == IF set = SetAlpha THEN <<"alpha-1", "alpha-2">> ELSE <<"beta-1">>

\* a JSON document: an array of items, or an object whose data field, when it
\* has one, is <<value>>
JsonArray(items) == [isArray |-> TRUE, items |-> items, data |-> <<>>]
JsonObject(data) == [isArray |-> FALSE, items |-> <<>>, data |-> data]

\* what a request can come to (lines 5-33): a body that parses, a body that
\* does not, an error of the request, no answer within 30 seconds
Parsed(json) == [kind |-> "json", json |-> json]
Failures == {[kind |-> "unparsable", json |-> JsonObject(<<>>)],
             [kind |-> "error", json |-> JsonObject(<<>>)],
             [kind |-> "timeout", json |-> JsonObject(<<>>)]}

\* the answers to the request of a list: the bare array, the array under
\* data, an object without data, or a failure
Answers(items) ==
    {Parsed(JsonArray(items)), Parsed(JsonObject(<<JsonArray(items)>>)),
     Parsed(JsonObject(<<>>))} \cup Failures

\* fetchJSON: TRUE when the promise resolves
Resolves(resp) == resp.kind = "json"

\* x.data || x (lines 42 and 58)
DataOr(json) == IF json.data # <<>> THEN json.data[1] ELSE json

SetStep_Abort(st, resp) ==
    IF Resolves(resp)
    THEN LET cards == DataOr(resp.json)
         IN [cards |-> IF cards.isArray THEN st.cards \o cards.items ELSE st.cards,
             processed |-> st.processed + 1, thrown |-> FALSE]
    ELSE [cards |-> st.cards, processed |-> st.processed, thrown |-> TRUE]

\* lines 51-72 for one set: st holds allCards and processedSets; thrown tells
\* whether an error leaves the try of the loop body uncaught
SetStep(st, resp) ==
    IF Resolves(resp)
    THEN LET cards == DataOr(resp.json)
         IN [cards |-> IF cards.isArray THEN st.cards \o cards.items ELSE st.cards,
             processed |-> st.processed + 1, thrown |-> FALSE]
    ELSE [cards |-> st.cards, processed |-> st.processed, thrown |-> FALSE]

FetchInit ==
    /\ \E list \in SeqsUpTo(UpstreamSets, MaxSets) : setsResponse \in Answers(list)
    /\ fcSets = <<>> /\ fcPc = "sets" /\ fcCards = <<>> /\ processedSets = 0
    /\ fcLog = <<>> /\ rawCardsFile = <<>> /\ fcExit = <<>>
    /\ MergeIdle /\ InferIdle /\ PricingIdle /\ UploadIdle /\ HealthIdle

\* lines 41-48: the sets list arrived as an array, bare or under data
FetchSets ==
    /\ fcPc = "sets"
    /\ Resolves(setsResponse)
    /\ DataOr(setsResponse.json).isArray
    /\ fcSets' = DataOr(setsResponse.json).items
    /\ fcPc' = "loop"
    /\ UNCHANGED <<setsResponse, fcCards, processedSets, fcLog, rawCardsFile,
                   fcExit, mergeVars, inferVars, pricingVars,
                   uploadVars, healthVars>>

\* line 41 throws, or sets is an object that line 50 cannot iterate: the outer
\* catch of lines 96-99 exits with 1
FetchSetsFail ==
    /\ fcPc = "sets"
    /\ ~(Resolves(setsResponse) /\ DataOr(setsResponse.json).isArray)
    /\ fcPc' = "failed"
    /\ fcExit' = <<1>>
    /\ UNCHANGED <<setsResponse, fcSets, fcCards, processedSets, fcLog,
                   rawCardsFile, mergeVars, inferVars, pricingVars,
                   uploadVars, healthVars>>

\* one turn of the loop of lines 50-73, for whatever the request of the set's
\* cards comes to
FetchSetCards ==
    /\ fcPc = "loop"
    /\ Len(fcLog) < Len(fcSets)
    /\ \E resp \in Answers(UpstreamCards(fcSets[Len(fcLog) + 1])) :
          LET st == SetStep([cards |-> fcCards, processed |-> processedSets], resp)
          IN /\ fcCards' = st.cards
             /\ processedSets' = st.processed
             /\ fcLog' = Append(fcLog, resp)
             /\ fcPc' = IF st.thrown THEN "failed" ELSE "loop"
             /\ fcExit' = IF st.thrown THEN <<1>> ELSE fcExit
    /\ UNCHANGED <<setsResponse, fcSets, rawCardsFile, mergeVars, inferVars,
                   pricingVars, uploadVars, healthVars>>

\* lines 75-94, after the last set: raw-cards.json is written (its lastUpdated
\* field is left out) and the process ends
WriteRawCards ==
    /\ fcPc = "loop"
    /\ Len(fcLog) = Len(fcSets)
    /\ rawCardsFile' = <<[sets |-> fcSets, cards |-> fcCards,
                          totalSets |-> Len(fcSets), totalCards |-> Len(fcCards)]>>
    /\ fcPc' = "done"
    /\ fcExit' = <<0>>
    /\ UNCHANGED <<setsResponse, fcSets, fcCards, processedSets, fcLog,
                   mergeVars, inferVars, pricingVars,
                   uploadVars, healthVars>>

FetchNext == FetchSets \/ FetchSetsFail \/ FetchSetCards \/ WriteRawCards
SpecFetch == FetchInit /\ [][FetchNext]_vars

\* -------------------------------------------------------- upload-shopify.js
MaxFiles == 3

\* names a data/ directory may hold
F_index == <<"t","c","g","-","c","a","r","d","s","-","i","n","d","e","x",".","j","s","o","n">>
F_summary == <<"s","u","m","m","a","r","y",".","j","s","o","n">>
F_rawCards == <<"r","a","w","-","c","a","r","d","s",".","j","s","o","n">>
F_pricingRaw == <<"p","r","i","c","i","n","g","-","r","a","w",".","j","s","o","n">>
F_notes == <<"n","o","t","e","s",".","t","x","t">>
FileNames == {F_index, F_summary, F_rawCards, F_pricingRaw, F_notes}

\* the values of an environment variable: unset, empty, set
StoreValues == {Undef, <<>>, <<"s","h","o","p">>}
TokenValues == {Undef, <<>>, <<"t","o","k">>}

startsWith(s, pre) == Len(pre) <= Len(s) /\ SubSeq(s, 1, Len(pre)) = pre
endsWith(s, suf) ==
    Len(suf) <= Len(s) /\ SubSeq(s, Len(s) - Len(suf) + 1, Len(s)) = suf

\* lines 51-53: f.endsWith('.json') && !f.includes('raw-')
IsDataFile(f) ==
    endsWith(f, <<".","j","s","o","n">>) /\ ~includes(f, <<"r","a","w","-">>)

AssetKey_AlwaysPrefix(file) ==
    <<"a","s","s","e","t","s","/","t","c","g","-">> \o file

\* lines 66-72
AssetKey(file) ==
    IF startsWith(file, <<"t","c","g","-">>)
    THEN <<"a","s","s","e","t","s","/">> \o file
    ELSE <<"a","s","s","e","t","s","/","t","c","g","-">> \o file

Configured_StoreOnly(store, token) == Truthy(store)

\* line 39, negated: both credentials are there
Configured(store, token) == Truthy(store) /\ Truthy(token)

\* what may become of one file in lines 61-110
FileOutcomes == {"readThrows", "fetchThrows", "ok", "notOk", "notOkTextThrows"}

\* whether readFileSync returned and whether fetch was called
WasRead(outcome) == outcome # "readThrows"
WasSent(outcome) == outcome # "readThrows"

Sends_Retry(file, outcome) ==
    LET put == [method |-> "PUT", key |-> AssetKey(file), file |-> file]
    IN IF ~WasSent(outcome) THEN <<>>
       ELSE IF outcome = "ok" THEN <<put>>
       ELSE <<put, put>>

\* lines 77-92: the requests made for one file
Sends(file, outcome) ==
    IF WasSent(outcome)
    THEN <<[method |-> "PUT", key |-> AssetKey(file), file |-> file]>>
    ELSE <<>>

FileStep_Abort(counts, outcome) ==
    CASE outcome = "ok" ->
            [success |-> counts.success + 1, error |-> counts.error, thrown |-> FALSE]
      [] outcome = "notOk" ->
            [success |-> counts.success, error |-> counts.error + 1, thrown |-> FALSE]
      [] OTHER ->
            [success |-> counts.success, error |-> counts.error, thrown |-> TRUE]

\* lines 61-110 for one file: the counters after it; thrown tells whether an
\* error leaves the try of the loop body uncaught
FileStep(counts, outcome) ==
    CASE outcome = "ok" ->
            [success |-> counts.success + 1, error |-> counts.error, thrown |-> FALSE]
      [] outcome = "notOk" ->
            [success |-> counts.success, error |-> counts.error + 1, thrown |-> FALSE]
      [] OTHER ->
            [success |-> counts.success, error |-> counts.error + 1, thrown |-> FALSE]

\* the listings of data/: up to MaxFiles names, each once
Listings ==
    {l \in SeqsUpTo(FileNames, MaxFiles) :
        \A i, j \in 1..Len(l) : i # j => l[i] # l[j]}

UploadInit ==
    /\ SHOPIFY_STORE \in StoreValues
    /\ ACCESS_TOKEN \in TokenValues
    /\ dataDirNames \in Listings
    /\ upPc = "start" /\ themeId = <<>> /\ dataFiles = <<>> /\ upLog = <<>>
    /\ successCount = 0 /\ errorCount = 0 /\ requests = <<>> /\ reads = <<>>
    /\ upExit = <<>>
    /\ MergeIdle /\ InferIdle /\ PricingIdle /\ FetchIdle /\ HealthIdle

\* lines 39-44: a credential is missing, the function returns
SkipUpload ==
    /\ upPc = "start"
    /\ ~Configured(SHOPIFY_STORE, ACCESS_TOKEN)
    /\ upPc' = "done"
    /\ upExit' = <<0>>
    /\ UNCHANGED <<SHOPIFY_STORE, ACCESS_TOKEN, dataDirNames, themeId,
                   dataFiles, upLog, successCount, errorCount, requests, reads,
                   mergeVars, inferVars, pricingVars, fetchVars,
                   healthVars>>

\* line 48, lines 7-33: the themes request gave a main theme
ThemeFound ==
    /\ upPc = "start"
    /\ Configured(SHOPIFY_STORE, ACCESS_TOKEN)
    /\ requests' = Append(requests, [method |-> "GET", key |-> <<>>,
                                       file |-> <<>>])
    /\ themeId' = <<1>>
    /\ upPc' = "list"
    /\ UNCHANGED <<SHOPIFY_STORE, ACCESS_TOKEN, dataDirNames, dataFiles, upLog,
                   successCount, errorCount, reads, upExit,
                   mergeVars, inferVars, pricingVars, fetchVars,
                   healthVars>>

\* line 48 throws (the request fails, is not OK or names no main theme): the
\* catch of lines 121-124 logs it and the function returns
ThemeFails ==
    /\ upPc = "start"
    /\ Configured(SHOPIFY_STORE, ACCESS_TOKEN)
    /\ requests' = Append(requests, [method |-> "GET", key |-> <<>>,
                                       file |-> <<>>])
    /\ upPc' = "done"
    /\ upExit' = <<0>>
    /\ UNCHANGED <<SHOPIFY_STORE, ACCESS_TOKEN, dataDirNames, themeId,
                   dataFiles, upLog, successCount, errorCount, reads,
                   mergeVars, inferVars, pricingVars, fetchVars,
                   healthVars>>

\* lines 51-58: the file list is built
ListFiles ==
    /\ upPc = "list"
    /\ dataFiles' = SelectSeq(dataDirNames, IsDataFile)
    /\ upPc' = "files"
    /\ UNCHANGED <<SHOPIFY_STORE, ACCESS_TOKEN, dataDirNames, themeId, upLog,
                   successCount, errorCount, requests, reads, upExit,
                   mergeVars, inferVars, pricingVars, fetchVars,
                   healthVars>>

\* line 51 throws (there is no data/): lines 121-124
ListFails ==
    /\ upPc = "list"
    /\ upPc' = "done"
    /\ upExit' = <<0>>
    /\ UNCHANGED <<SHOPIFY_STORE, ACCESS_TOKEN, dataDirNames, themeId,
                   dataFiles, upLog, successCount, errorCount, requests, reads,
                   mergeVars, inferVars, pricingVars, fetchVars,
                   healthVars>>

\* one turn of the loop of lines 60-111, for whatever becomes of the file
UploadFile ==
    /\ upPc = "files"
    /\ Len(upLog) < Len(dataFiles)
    /\ \E outcome \in FileOutcomes :
          LET file == dataFiles[Len(upLog) + 1]
              st == FileStep([success |-> successCount, error |-> errorCount],
                             outcome)
          IN /\ upLog' = Append(upLog, [file |-> file, outcome |-> outcome])
             /\ reads' = IF WasRead(outcome) THEN Append(reads, file) ELSE reads
             /\ requests' = requests \o Sends(file, outcome)
             /\ successCount' = st.success
             /\ errorCount' = st.error
             /\ upPc' = IF st.thrown THEN "done" ELSE "files"
             /\ upExit' = IF st.thrown THEN <<0>> ELSE upExit
    /\ UNCHANGED <<SHOPIFY_STORE, ACCESS_TOKEN, dataDirNames, themeId,
                   dataFiles, mergeVars, inferVars, pricingVars, fetchVars,
                   healthVars>>

\* lines 113-125, after the last file
FinishUpload ==
    /\ upPc = "files"
    /\ Len(upLog) = Len(dataFiles)
    /\ upPc' = "done"
    /\ upExit' = <<0>>
    /\ UNCHANGED <<SHOPIFY_STORE, ACCESS_TOKEN, dataDirNames, themeId,
                   dataFiles, upLog, successCount, errorCount, requests, reads,
                   mergeVars, inferVars, pricingVars, fetchVars,
                   healthVars>>

\* lines 10-18: the host never answers the themes request; fetch is called
\* without a timeout or an abort signal, so the await of line 48 does not
\* return
ThemeNoAnswer ==
    /\ upPc = "start"
    /\ Configured(SHOPIFY_STORE, ACCESS_TOKEN)
    /\ requests' = Append(requests, [method |-> "GET", key |-> <<>>,
                                       file |-> <<>>])
    /\ upPc' = "waiting"
    /\ UNCHANGED <<SHOPIFY_STORE, ACCESS_TOKEN, dataDirNames, themeId,
                   dataFiles, upLog, successCount, errorCount, reads, upExit,
                   mergeVars, inferVars, pricingVars, fetchVars,
                   healthVars>>

\* lines 64-92: the file is read and sent, and the host never answers; the
\* fetch of line 77 has no timeout either, so the loop does not go on
UploadNoAnswer ==
    /\ upPc = "files"
    /\ Len(upLog) < Len(dataFiles)
    /\ LET file == dataFiles[Len(upLog) + 1]
       IN /\ reads' = Append(reads, file)
          /\ requests' = requests \o Sends(file, "ok")
    /\ upPc' = "waiting"
    /\ UNCHANGED <<SHOPIFY_STORE, ACCESS_TOKEN, dataDirNames, themeId,
                   dataFiles, upLog, successCount, errorCount, upExit,
                   mergeVars, inferVars, pricingVars, fetchVars,
                   healthVars>>

UploadNext ==
    \/ SkipUpload \/ ThemeFound \/ ThemeFails \/ ThemeNoAnswer
    \/ ListFiles \/ ListFails
    \/ UploadFile \/ UploadNoAnswer \/ FinishUpload
SpecUpload == UploadInit /\ [][UploadNext]_vars

\* ---------------------------------- the uploader over names with a prefix
MaxAssetFiles == 2

F_tcgSummary == <<"t","c","g","-">> \o F_summary
F_tcgTcgSummary == <<"t","c","g","-","t","c","g","-">> \o F_summary

\* names of data/ with and without the prefix of the assets
AssetNames ==
    {F_index, F_summary, F_tcgSummary, F_tcgTcgSummary, F_rawCards,
     F_pricingRaw}

\* the uploader before its first step, over a data/ of up to MaxAssetFiles
\* of these names, each once
AssetsInit ==
    /\ SHOPIFY_STORE \in StoreValues
    /\ ACCESS_TOKEN \in TokenValues
    /\ dataDirNames \in {l \in SeqsUpTo(AssetNames, MaxAssetFiles) :
                            \A i, j \in 1..Len(l) : i # j => l[i] # l[j]}
    /\ upPc = "start" /\ themeId = <<>> /\ dataFiles = <<>> /\ upLog = <<>>
    /\ successCount = 0 /\ errorCount = 0 /\ requests = <<>> /\ reads = <<>>
    /\ upExit = <<>>
    /\ MergeIdle /\ InferIdle /\ PricingIdle /\ FetchIdle /\ HealthIdle

SpecAssets == AssetsInit /\ [][UploadNext]_vars

\* ------------------------------------- fetch-pricing.js: the source
SourceUrl == <<"h", "t", "t", "p", "s", ":", "/", "/", "t", "c", "g">>

\* the row upstream gives and the row the local file holds
UrlRow == [BaseRow EXCEPT !.groupId = S_base5, !.extNumber = N_36,
                          !.market = <<"3">>]
LocalRow == [BaseRow EXCEPT !.groupId = S_xy1, !.extNumber = N_1,
                            !.market = <<"7">>]

\* the JSON documents a source may hold: an array of rows, an object with
\* the array under data, an object without data
SourceDocs(r) ==
    {JsonArray(<<>>), JsonArray(<<r>>), JsonObject(<<JsonArray(<<r, r>>)>>),
     JsonObject(<<>>)}

\* line 86
RowsOf(doc) ==
    IF doc.isArray THEN doc.items
    ELSE IF doc.data # <<>> /\ doc.data[1].isArray THEN doc.data[1].items
    ELSE <<>>

PickSource_PathFirst(url, arg, exists) ==
    IF Truthy(arg) THEN "path"
    ELSE IF Truthy(url) THEN "url"
    ELSE IF exists THEN "existing"
    ELSE "none"

\* the branches of lines 56-84
PickSource(url, arg, exists) ==
    IF Truthy(url) THEN "url"
    ELSE IF Truthy(arg) THEN "path"
    ELSE IF exists THEN "existing"
    ELSE "none"

Picked == PickSource(TCGCSV_URL, argv2, existingFile # "missing")

SourcingInit ==
    /\ TCGCSV_URL \in {Undef, <<>>, SourceUrl}
    /\ argv2 \in {Undef, LocalPath}
    /\ existingFile \in {"missing", "unparsable", "json"}
    /\ rows = <<>> /\ pricing = <<>> /\ rowLog = <<>>
    /\ extracted = 0 /\ totalProducts = 0
    /\ output = <<>>
    /\ pricingPc = "start"
    /\ MergeIdle /\ InferIdle /\ FetchIdle /\ UploadIdle /\ HealthIdle

\* lines 58-63: the response is OK and its body is JSON
FetchSourceOk ==
    /\ pricingPc = "start" /\ Picked = "url"
    /\ \E doc \in SourceDocs(UrlRow) : rows' = RowsOf(doc)
    /\ pricingPc' = "loop"
    /\ UNCHANGED <<pricing, rowLog, extracted, totalProducts, output,
                   TCGCSV_URL, argv2, existingFile, mergeVars, inferVars,
                   fetchVars, uploadVars, healthVars>>

\* lines 58-63: the response is not OK (exit 1 of line 61), or fetch or
\* r.json() rejects and the catch of lines 173-176 exits with 1
FetchSourceFails ==
    /\ pricingPc = "start" /\ Picked = "url"
    /\ pricingPc' = "exit1"
    /\ UNCHANGED <<rows, pricing, rowLog, extracted, totalProducts, output,
                   TCGCSV_URL, argv2, existingFile, mergeVars, inferVars,
                   fetchVars, uploadVars, healthVars>>

\* line 58: the host never answers; fetch is called without a timeout or an
\* abort signal, so the await does not return
FetchSourceNoAnswer ==
    /\ pricingPc = "start" /\ Picked = "url"
    /\ pricingPc' = "waiting"
    /\ UNCHANGED <<rows, pricing, rowLog, extracted, totalProducts, output,
                   TCGCSV_URL, argv2, existingFile, mergeVars, inferVars,
                   fetchVars, uploadVars, healthVars>>

\* lines 64-69: the file of the argument is read and parsed
ReadLocalOk ==
    /\ pricingPc = "start" /\ Picked = "path"
    /\ \E doc \in SourceDocs(LocalRow) : rows' = RowsOf(doc)
    /\ pricingPc' = "loop"
    /\ UNCHANGED <<pricing, rowLog, extracted, totalProducts, output,
                   TCGCSV_URL, argv2, existingFile, mergeVars, inferVars,
                   fetchVars, uploadVars, healthVars>>

\* lines 64-69: readFileSync or JSON.parse throws; lines 173-176 exit with 1
ReadLocalFails ==
    /\ pricingPc = "start" /\ Picked = "path"
    /\ pricingPc' = "exit1"
    /\ UNCHANGED <<rows, pricing, rowLog, extracted, totalProducts, output,
                   TCGCSV_URL, argv2, existingFile, mergeVars, inferVars,
                   fetchVars, uploadVars, healthVars>>

\* lines 72-77: the existing file is parsed for its count and the process
\* exits with 0; a file that is not JSON throws at line 74 (exit 1)
Passthrough ==
    /\ pricingPc = "start" /\ Picked = "existing"
    /\ pricingPc' = IF existingFile = "json" THEN "exit0" ELSE "exit1"
    /\ UNCHANGED <<rows, pricing, rowLog, extracted, totalProducts, output,
                   TCGCSV_URL, argv2, existingFile, mergeVars, inferVars,
                   fetchVars, uploadVars, healthVars>>

\* lines 78-81
NoSource ==
    /\ pricingPc = "start" /\ Picked = "none"
    /\ pricingPc' = "exit2"
    /\ UNCHANGED <<rows, pricing, rowLog, extracted, totalProducts, output,
                   TCGCSV_URL, argv2, existingFile, mergeVars, inferVars,
                   fetchVars, uploadVars, healthVars>>

SourcingNext ==
    \/ FetchSourceOk \/ FetchSourceFails \/ FetchSourceNoAnswer
    \/ ReadLocalOk \/ ReadLocalFails \/ Passthrough \/ NoSource
    \/ NoRows \/ ProcessRow \/ WriteOutput
SpecSourcing == SourcingInit /\ [][SourcingNext]_vars

\* ------------------------------------ a run of the fetcher or the uploader
StagesInit == FetchInit \/ UploadInit
StagesNext == FetchNext \/ UploadNext
SpecStages == StagesInit /\ [][StagesNext]_vars

\* ------------------------------------- a run of any stage that uses the net
\* a stage that can take a step takes one: the process runs until it exits
\* or awaits an answer that does not come
NetInit == FetchInit \/ UploadInit \/ SourcingInit
NetNext == FetchNext \/ UploadNext \/ SourcingNext
SpecNet == NetInit /\ [][NetNext]_vars /\ WF_vars(NetNext)

\* --------------------------------------------------------- debug-pricing.js
MaxEntries == 3

DefaultThreshold == 100

\* Number.parseInt(s, 10): <<n>> for the integer read after leading blanks,
\* from an optional sign and the longest run of digits; <<>> is NaN
ParseInt(s) ==
    LET t == TrimLeft(s)
        neg == t # <<>> /\ Head(t) = "-"
        u == IF t # <<>> /\ Head(t) \in {"-", "+"} THEN Tail(t) ELSE t
        ds == LeadingDigits(u)
    IN IF ds = <<>> THEN <<>>
       ELSE <<IF neg THEN 0 - DigitsValue(ds) ELSE DigitsValue(ds)>>

\* line 12
THRESHOLD(env) == ParseInt(Or(env, Decimal(DefaultThreshold)))

\* line 20: j?.pricing ? Object.keys(j.pricing).length : 0
EntryCount(file) ==
    IF file.pricing # <<>> THEN Cardinality(file.pricing[1]) ELSE 0

TooFew_Inclusive(n, threshold) == threshold # <<>> /\ n <= threshold[1]

\* line 22: n < THRESHOLD, which is false when THRESHOLD is NaN
TooFew(n, threshold) == threshold # <<>> /\ n < threshold[1]

\* the values MIN_PRICING_ENTRIES may have
ThresholdTexts ==
    {Undef, <<>>, <<"0">>, <<"2">>, <<" ", "2", "x">>, <<"-", "1">>,
     <<"a", "b", "c">>}

\* pricing-raw.json: missing, not JSON, JSON without a pricing mapping, or
\* JSON whose pricing mapping has the keys 1..n
PricingFiles ==
    {[state |-> "missing", pricing |-> <<>>],
     [state |-> "unparsable", pricing |-> <<>>],
     [state |-> "json", pricing |-> <<>>]}
    \cup {[state |-> "json", pricing |-> <<1..n>>] :
             n \in (0..MaxEntries) \cup {DefaultThreshold - 1, DefaultThreshold}}

HealthInit ==
    /\ MIN_PRICING_ENTRIES \in ThresholdTexts
    /\ strictMode \in BOOLEAN
    /\ pricingFile \in PricingFiles
    /\ hcPc = "start" /\ hcExit = <<>>
    /\ MergeIdle /\ InferIdle /\ PricingIdle /\ FetchIdle /\ UploadIdle

\* lines 14-17
HealthMissing ==
    /\ hcPc = "start"
    /\ pricingFile.state = "missing"
    /\ hcPc' = "done" /\ hcExit' = <<2>>
    /\ UNCHANGED <<MIN_PRICING_ENTRIES, strictMode, pricingFile, mergeVars,
                   inferVars, pricingVars, fetchVars, uploadVars>>

\* line 19 throws: the uncaught error ends the process with code 1
HealthUnparsable ==
    /\ hcPc = "start"
    /\ pricingFile.state = "unparsable"
    /\ hcPc' = "done" /\ hcExit' = <<1>>
    /\ UNCHANGED <<MIN_PRICING_ENTRIES, strictMode, pricingFile, mergeVars,
                   inferVars, pricingVars, fetchVars, uploadVars>>

\* lines 19-25
HealthTooFew ==
    /\ hcPc = "start"
    /\ pricingFile.state = "json"
    /\ TooFew(EntryCount(pricingFile), THRESHOLD(MIN_PRICING_ENTRIES))
    /\ hcPc' = "done" /\ hcExit' = <<1>>
    /\ UNCHANGED <<MIN_PRICING_ENTRIES, strictMode, pricingFile, mergeVars,
                   inferVars, pricingVars, fetchVars, uploadVars>>

\* lines 19-22 and 26: the script runs to its end
HealthOk ==
    /\ hcPc = "start"
    /\ pricingFile.state = "json"
    /\ ~TooFew(EntryCount(pricingFile), THRESHOLD(MIN_PRICING_ENTRIES))
    /\ hcPc' = "done" /\ hcExit' = <<0>>
    /\ UNCHANGED <<MIN_PRICING_ENTRIES, strictMode, pricingFile, mergeVars,
                   inferVars, pricingVars, fetchVars, uploadVars>>

HealthNext == HealthMissing \/ HealthUnparsable \/ HealthTooFew \/ HealthOk
SpecHealth == HealthInit /\ [][HealthNext]_vars

\* ------------------------------------------- properties of the normalizer
\* the number the key of a record is built from (line 120)
KeyNumber(r) == Or(r.extractedNumber, r.extNumber)

\* the text a row gives for its printing (line 105)
PrintingText(row) == Or(row.printing, Or(row.subTypeName, row.finish))

\* C2: the key a row is stored under (toKey) is the key the merger builds
\* from the same group id, number, printing and language (buildPricingKey):
\* lowercase group, uppercase number, lowercase printing, uppercase language
C2_KeyIsMergerKey ==
    \A i \in 1..Len(rowLog) :
        LET r == rowLog[i]
        IN r.key = buildPricingKey(r.groupId, KeyNumber(r), r.printing, r.lang)

\* C3: the printing stored for a row, and used in its key, is one of normal,
\* holo, reverse: reverse when the source text contains "reverse", holo when
\* it contains "holo" or "foil" and not "reverse", normal otherwise
C3_PrintingIsNormalized ==
    \A i \in 1..Len(rowLog) :
        LET r == rowLog[i]
            p == normalizePrintingLike(PrintingText(rows[i]))
        IN /\ r.printing \in {W_normal, W_holo, W_reverse}
           /\ r.printing = p
           /\ r.key = toLowerCase(r.groupId) \o Bar \o KeyNumber(r) \o Bar
                        \o p \o Bar \o r.lang

\* the source value of a price field of a row: the first of its names present
PriceSource(row, f) ==
    CASE f = "low" -> Coalesce(row.low, Coalesce(row.lowPrice, row.lowest_price))
      [] f = "mid" -> Coalesce(row.mid, Coalesce(row.market, row.median))
      [] f = "high" -> Coalesce(row.high, Coalesce(row.highPrice, row.highest_price))
      [] f = "market" -> Coalesce(row.market, Coalesce(row.avg, row.mean))
      [] f = "directLow" -> Coalesce(row.directLow, row.direct_low)

\* the value is missing, or no number can be read at its start
MissingOrMalformed(v) ==
    \/ v = Undef
    \/ LET t == TrimLeft(v)
       IN ~ (/\ t # <<>>
             /\ \/ Head(t) \in Digits
                \/ Head(t) = "." /\ Len(t) > 1 /\ t[2] \in Digits)

PriceFields == {"low", "mid", "high", "market", "directLow"}

\* every row processed is in the mapping, and the file written holds a
\* record for every row of the source
RowsAreWritten ==
    /\ \A i \in 1..Len(rowLog) :
          /\ rowLog[i].key \in DOMAIN pricing
          /\ pricing[rowLog[i].key].key = rowLog[i].key
    /\ pricingPc = "written" =>
          /\ Len(rowLog) = Len(rows)
          /\ \A i \in 1..Len(rows) : rowLog[i].key \in DOMAIN output[1].pricing

\* C4 as stated: a missing or malformed price field is stored as 0, for each
\* of low, mid, high, market and directLow, and the row is still written
C4_MalformedIsZero ==
    /\ \A i \in 1..Len(rowLog) : \A f \in PriceFields :
          MissingOrMalformed(PriceSource(rows[i], f)) => rowLog[i][f] = 0
    /\ RowsAreWritten

\* C4 amended: a missing or malformed low, mid, high or directLow is stored
\* as 0; a missing or malformed market is stored as the mid of the same
\* record (0 when mid is missing or malformed too); the row is still written
C4_MalformedIsDefault ==
    /\ \A i \in 1..Len(rowLog) : \A f \in PriceFields :
          MissingOrMalformed(PriceSource(rows[i], f)) =>
              rowLog[i][f] = IF f = "market" THEN rowLog[i].mid ELSE 0
    /\ RowsAreWritten

\* a row whose low and market cannot be read while its mid can
C4_Witness ==
    \E i \in 1..Len(rowLog) :
        /\ rows[i].low # Undef /\ MissingOrMalformed(rows[i].low)
        /\ rows[i].market # Undef /\ MissingOrMalformed(rows[i].market)
        /\ rowLog[i].low = 0
        /\ rowLog[i].market = rowLog[i].mid /\ rowLog[i].mid > 0
        /\ pricingPc = "written"
        /\ output[1].pricing[rowLog[i].key].market = rowLog[i].mid

\* ------------------------------------------------ properties of the merge
\* the leading alphanumeric run of an id that stands before its first
\* hyphen, lowercased; Undef when the id has no such prefix
IdPrefix(id) ==
    LET h == IndexOf(id, <<"-">>)
    IN IF Truthy(id) /\ h > 1 /\ \A k \in 1..(h - 1) : IsAlnum(id[k])
       THEN toLowerCase(SubSeq(id, 1, h - 1))
       ELSE Undef

\* the path segment that follows the image host in a URL, lowercased
SegmentAfterHost(url) ==
    IF ~Truthy(url) THEN Undef
    ELSE LET i == IndexOf(toLowerCase(url), ImageHost)
             rest == SubSeq(url, i + Len(ImageHost), Len(url))
             j == IndexOf(rest, <<"/">>)
         IN IF i = 0 \/ j = 0 THEN Undef
            ELSE toLowerCase(SubSeq(rest, 1, j - 1))

ExpectedCode(id, url) ==
    IF IdPrefix(id) # Undef THEN IdPrefix(id) ELSE SegmentAfterHost(url)

\* C7: the inferred set code is the lowercased alphanumeric prefix of the
\* card id before its first hyphen; without such a prefix, the path segment
\* after the image host of the image URL; without either, none
C7_InferredCode ==
    inferPc = "returned" => outCode = ExpectedCode(inId, inUrl)

\* "base5-36" gives "base5"
C7_Witness ==
    /\ inferPc = "returned"
    /\ inId = Id_base5_36 /\ inUrl = Undef
    /\ outCode = S_base5

Processed == 1..Len(enrichedCards)

\* the candidate keys of card i: set variants outermost, then number
\* variants, then printing variants
Cands(i) ==
    LET sv == SetVariations(allCards[i], enrichedCards[i].set)
        nv == NumberVariations(allCards[i])
        pv == PrintingVariations(allCards[i])
        np == Len(pv)
        nn == Len(nv)
    IN [k \in 1..(Len(sv) * nn * np) |->
          buildPricingKey(sv[((k - 1) \div (nn * np)) + 1],
                          nv[(((k - 1) \div np) % nn) + 1],
                          pv[((k - 1) % np) + 1],
                          DEFAULT_LANG)]

\* C1: the keys of a card are tried set variant by set variant, inside it
\* number variant by number variant, inside it printing by printing; the
\* card gets the record of the first candidate present in the mapping, and
\* no candidate after it is tried
C1_FirstPresentKeyWins ==
    \A i \in Processed :
        LET c == Cands(i)
            t == triedLog[i]
            out == enrichedCards[i].pricing
            present == {k \in 1..Len(c) : c[k] \in DOMAIN pricingMap}
        IN /\ Len(t) <= Len(c)
           /\ \A k \in 1..Len(t) : t[k] = c[k]
           /\ IF present = {}
              THEN out = NoPricing /\ Len(t) = Len(c)
              ELSE LET f == CHOOSE k \in present : \A j \in present : k <= j
                   IN /\ Len(t) = f
                      /\ out # NoPricing
                      /\ out[1].matchedKey = c[f]
                      /\ out[1].key = pricingMap[c[f]].key
                      /\ out[1].market = pricingMap[c[f]].market

\* a card matched after its first try while a later candidate, under
\* another key, is in the mapping too
C1_Witness ==
    \E i \in Processed :
        LET c == Cands(i)
            t == triedLog[i]
        IN /\ enrichedCards[i].pricing # NoPricing
           /\ Len(t) > 1
           /\ \E k \in (Len(t) + 1)..Len(c) :
                 c[k] \in DOMAIN pricingMap /\ c[k] # t[Len(t)]

IsPrefix(pre, s) == Len(pre) <= Len(s) /\ SubSeq(s, 1, Len(pre)) = pre

Key036Normal == S_base5 \o Bar \o N_036 \o Bar \o W_normal \o Bar \o DEFAULT_LANG
Prefix36 == S_base5 \o Bar \o N_36 \o Bar

\* the mapping holds "base5|036|normal|EN" and no "base5|36|<printing>|EN",
\* and card i has the resolved set id base5 and the number "36"
C5_Case(i) ==
    /\ enrichedCards[i].set.id = S_base5
    /\ allCards[i].number = N_36
    /\ Key036Normal \in DOMAIN pricingMap
    /\ \A k \in DOMAIN pricingMap : ~IsPrefix(Prefix36, k)

C5_GetsPadded(i) ==
    /\ enrichedCards[i].pricing # NoPricing
    /\ enrichedCards[i].pricing[1].matchedKey = Key036Normal
    /\ enrichedCards[i].pricing[1].market = pricingMap[Key036Normal].market

\* C5 as stated: in that case the card receives the record stored under
\* "base5|036|normal|EN"
C5_PaddedNumberMatches ==
    \A i \in Processed : C5_Case(i) => C5_GetsPadded(i)

\* C5 amended: in that case, and when the mapping holds no key
\* "base5|036|<p>|EN" for the card's own printing p other than normal, the
\* card receives the record stored under "base5|036|normal|EN", after the
\* eight keys of the unpadded number
C5_PaddedNumberMatchesOwnAbsent ==
    \A i \in Processed :
        LET own == buildPricingKey(S_base5, N_036, OwnPrinting(allCards[i]),
                                   DEFAULT_LANG)
        IN C5_Case(i) /\ (own = Key036Normal \/ own \notin DOMAIN pricingMap)
           => /\ C5_GetsPadded(i)
              /\ Len(triedLog[i]) > 8
              /\ \A k \in 1..8 : IsPrefix(Prefix36, triedLog[i][k])

C5_Witness ==
    \E i \in Processed :
        /\ C5_Case(i) /\ C5_GetsPadded(i)
        /\ triedLog[i][Len(triedLog[i])] = Key036Normal

\* the scenario of C6: one card {id: "xy1-1", number: "1", set: {}}, xy1 in
\* the registry, one record under "xy1|1|normal|EN" with market 12.5
C6_Scenario ==
    /\ allCards = << Card(Id_xy1_1, N_1, Undef, EmptySet, Undef) >>
    /\ \E k \in 1..Len(allSets) : allSets[k].id = S_xy1
    /\ pricingMap = MapOf({PricingRecord(S_xy1, N_1, W_normal, <<>>, 125)})

C6_Result ==
    /\ Len(enrichedCards) = 1
    /\ enrichedCards[1].set.id = S_xy1
    /\ enrichedCards[1].pricing # NoPricing
    /\ enrichedCards[1].pricing[1].market = 125

\* C6: the scenario yields exactly one output card, with set.id "xy1" and
\* pricing.market 12.5
C6_EndToEnd == C6_Scenario /\ mergePc = "done" => C6_Result

C6_Witness == C6_Scenario /\ mergePc = "done" /\ C6_Result

\* the code inferred for card i, and the registry entries it names
CodeOf(i) ==
    ExpectedCode(allCards[i].id, Or(allCards[i].imgSmall, allCards[i].imgLarge))
RegistryHits(i) ==
    {k \in 1..Len(allSets) :
        /\ Truthy(CodeOf(i)) /\ Truthy(allSets[k].id)
        /\ toLowerCase(allSets[k].id) = toLowerCase(CodeOf(i))}

\* C8: an embedded set with a key is output as it is and the registry is not
\* consulted; otherwise the output set is the registry entry whose id equals
\* the inferred code up to letter case, and the empty object when there is none
C8_SetResolution ==
    \A i \in Processed :
        LET out == enrichedCards[i].set
        IN IF hasKeys(allCards[i].set)
           THEN out = allCards[i].set /\ lookups[i] = <<>>
           ELSE IF RegistryHits(i) # {}
           THEN \E k \in RegistryHits(i) : out = allSets[k]
           ELSE out = EmptySet

\* a card without embedded set, resolved to a registry entry whose id
\* differs from the inferred code in letter case
C8_Witness ==
    \E i \in Processed :
        /\ ~hasKeys(allCards[i].set)
        /\ enrichedCards[i].set.id # Undef
        /\ enrichedCards[i].set.id # CodeOf(i)
        /\ lookups[i] = <<CodeOf(i)>>

\* C9 as stated: the output set.id is non-null whenever the embedded set
\* carries an id or the inferred code is in the registry, also for a card
\* whose embedded set has keys but no id
C9_SetIdWhenResolvable ==
    \A i \in Processed :
        (allCards[i].set.id # Undef \/ RegistryHits(i) # {})
            => enrichedCards[i].set.id # Undef

\* C9 amended: the output set.id is non-null whenever the embedded set
\* carries an id, or the embedded set has no key and the inferred code is in
\* the registry
C9_SetIdWhenResolved ==
    \A i \in Processed :
        (\/ allCards[i].set.id # Undef
         \/ ~hasKeys(allCards[i].set) /\ RegistryHits(i) # {})
            => enrichedCards[i].set.id # Undef

\* a card whose id gives no code, resolved through its image URL
C9_Witness ==
    \E i \in Processed :
        /\ ~hasKeys(allCards[i].set)
        /\ IdPrefix(allCards[i].id) = Undef
        /\ RegistryHits(i) # {}
        /\ enrichedCards[i].set.id # Undef

\* pricing is null exactly when no candidate key is in the mapping, and the
\* run ends with one output card per input card
C10_NullIffNoCandidate ==
    /\ \A i \in Processed :
          LET c == Cands(i)
          IN (enrichedCards[i].pricing = NoPricing)
                 <=> (\A k \in 1..Len(c) : c[k] \notin DOMAIN pricingMap)
    /\ mergePc = "done" => Len(enrichedCards) = Len(allCards)

\* C10 as stated: pricing is null exactly when no candidate key is in the
\* mapping, and otherwise carries every field of the matched record with
\* the value of that record
C10_PricingIsRecord ==
    /\ C10_NullIffNoCandidate
    /\ \A i \in Processed :
          enrichedCards[i].pricing # NoPricing =>
              LET p == enrichedCards[i].pricing[1]
                  r == pricingMap[p.matchedKey]
              IN \A f \in DOMAIN r : p[f] = r[f]

\* C10 amended: as stated for every field but groupName; groupName is the
\* record's when that is not empty, and otherwise the name of the card's
\* resolved set (empty when it has none)
C10_PricingIsRecordButGroupName ==
    /\ C10_NullIffNoCandidate
    /\ \A i \in Processed :
          enrichedCards[i].pricing # NoPricing =>
              LET p == enrichedCards[i].pricing[1]
                  r == pricingMap[p.matchedKey]
              IN /\ \A f \in DOMAIN r \ {"groupName"} : p[f] = r[f]
                 /\ p.groupName = IF r.groupName # <<>> THEN r.groupName
                                  ELSE Str(enrichedCards[i].set.name)

\* a matched card whose record has no group name and whose set has a name
C10_Witness ==
    \E i \in Processed :
        /\ enrichedCards[i].pricing # NoPricing
        /\ pricingMap[enrichedCards[i].pricing[1].matchedKey].groupName = <<>>
        /\ enrichedCards[i].pricing[1].groupName = enrichedCards[i].set.name
        /\ enrichedCards[i].set.name # Undef
        /\ mergePc = "done"

\* ------------------------------------------------ properties of the reruns
\* the chunk files without their lastUpdated field
StripTime(chunks) ==
    [j \in 1..Len(chunks) |->
        [f \in DOMAIN chunks[j] \ {"lastUpdated"} |-> chunks[j][f]]]

SummaryFile == dataDir.summary[1]

\* the percentage a written coverage text reads as, in tenths of a percent
WrittenTenths == ParseFloat(SummaryFile.pricingCoverage)

\* C12 as stated: pricingCoverage of summary.json is cardsWithPricing /
\* totalCards * 100 rounded to one decimal, the two counts being those of the
\* same file, for every number of cards, zero included
C12_CoverageIsRounded ==
    mergePc = "done" =>
        /\ SummaryFile.totalCards > 0
        /\ WrittenTenths =
              (2000 * SummaryFile.cardsWithPricing + SummaryFile.totalCards)
                 \div (2 * SummaryFile.totalCards)

\* C12 as amended: the counts of summary.json are the number of cards and of
\* priced cards of the run; for no card the coverage written is 0.0%; for one
\* card or more it is a percentage with one decimal, no further than 0.05 from
\* cardsWithPricing / totalCards * 100
C12_CoverageIsNearestTenth ==
    mergePc = "done" =>
        /\ SummaryFile.totalCards = Len(enrichedCards)
        /\ SummaryFile.cardsWithPricing = cardsWithPricing
        /\ IF SummaryFile.totalCards = 0
           THEN SummaryFile.pricingCoverage = <<"0", ".", "0", "%">>
           ELSE LET n == SummaryFile.totalCards
                    err == (WrittenTenths * n) - (1000 * SummaryFile.cardsWithPricing)
                IN /\ WrittenTenths >= 0
                   /\ SummaryFile.pricingCoverage =
                         Decimal(WrittenTenths \div 10) \o <<".">>
                            \o Decimal(WrittenTenths % 10) \o <<"%">>
                   /\ 2 * err <= n /\ 2 * err >= 0 - n

\* 23 priced cards of 80 are 28.75%, written as 28.7%
C12_Witness ==
    /\ mergePc = "done"
    /\ SummaryFile.totalCards = 80 /\ SummaryFile.cardsWithPricing = 23
    /\ SummaryFile.pricingCoverage = <<"2", "8", ".", "7", "%">>

\* ------------------------------------------------ properties of the chunks
RECURSIVE Concat(_)
\* the cards of the chunk files, in increasing chunk number
Concat(files) ==
    IF files = <<>> THEN <<>> ELSE Head(files).cards \o Concat(Tail(files))

\* C13: the chunk files are numbered 1..totalChunks without a gap, each file
\* carries its own number and the same totalChunks, every file but the last
\* holds exactly 500 cards and the last between 1 and 500, and the files read
\* in increasing number give back the enriched cards in input order
C13_ChunksPartitionCards ==
    mergePc = "done" =>
        LET files == dataDir.chunks
            total == SummaryFile.totalChunks
        IN /\ Len(files) = total
           /\ \A j \in 1..total :
                 /\ files[j].chunk = j
                 /\ files[j].totalChunks = total
                 /\ Len(files[j].cards) >= 1
                 /\ Len(files[j].cards) <= 500
                 /\ j < total => Len(files[j].cards) = 500
           /\ Concat(files) = enrichedCards

\* 1001 cards were written as two chunks of 500 and a last chunk of one card
C13_Witness ==
    /\ mergePc = "done"
    /\ Len(enrichedCards) = 1001
    /\ Len(dataDir.chunks) = 3
    /\ Len(dataDir.chunks[3].cards) = 1

\* --------------------------------------------- properties of the card fetcher
RECURSIVE CardsOfSucceeded(_, _)
\* the card arrays of the sets whose request gave an array, in list order
CardsOfSucceeded(sets, log) ==
    IF sets = <<>> THEN <<>>
    ELSE (IF Head(log).kind = "json" /\ Head(log).json # JsonObject(<<>>)
          THEN UpstreamCards(Head(sets)) ELSE <<>>)
         \o CardsOfSucceeded(Tail(sets), Tail(log))

\* C14: once the sets list is there, a set whose cards cannot be fetched
\* (request error, timeout, unparsable body) is skipped and the next set is
\* tried; the run ends by writing raw-cards.json, whose cards are the card
\* arrays of the sets that were fetched, in list order, and never exits with
\* an error
C14_FailedSetIsSkipped ==
    /\ fcExit = <<1>> => fcLog = <<>>
    /\ fcPc = "loop" => fcCards = CardsOfSucceeded(SubSeq(fcSets, 1, Len(fcLog)), fcLog)
    /\ fcPc = "done" =>
          /\ Len(fcLog) = Len(fcSets)
          /\ rawCardsFile # <<>>
          /\ rawCardsFile[1].cards = CardsOfSucceeded(fcSets, fcLog)
          /\ fcExit = <<0>>

\* a run over three sets whose second request timed out wrote the cards of the
\* first and the third set
C14_Witness ==
    /\ fcPc = "done"
    /\ fcSets = <<SetAlpha, SetBeta, SetAlpha>>
    /\ fcLog[1].kind = "json" /\ fcLog[2].kind = "timeout" /\ fcLog[3].kind = "json"
    /\ rawCardsFile[1].cards = <<"alpha-1", "alpha-2", "alpha-1", "alpha-2">>

\* ------------------------------------------------ properties of the uploader
\* the entries of the upload log with a given outcome
Logged(outcomes) == {i \in 1..Len(upLog) : upLog[i].outcome \in outcomes}

\* C15: once the file list is built, the files are tried in list order, each
\* once, whatever became of the files before; each try adds one to exactly one
\* of successCount and errorCount; at the end successCount + errorCount is the
\* number of files of the list
C15_EveryFileCountedOnce ==
    /\ Len(upLog) <= Len(dataFiles)
    /\ \A i \in 1..Len(upLog) : upLog[i].file = dataFiles[i]
    /\ successCount = Cardinality(Logged({"ok"}))
    /\ errorCount = Cardinality(Logged(FileOutcomes \ {"ok"}))
    /\ successCount + errorCount = Len(upLog)
    /\ upPc = "done" => Len(upLog) = Len(dataFiles)

\* three files were tried: the first could not be read, the second was
\* refused, the third was uploaded
C15_Witness ==
    /\ upPc = "done"
    /\ Len(dataFiles) = 3 /\ Len(upLog) = 3
    /\ upLog[1].outcome = "readThrows"
    /\ upLog[2].outcome = "notOkTextThrows"
    /\ upLog[3].outcome = "ok"
    /\ successCount = 1 /\ errorCount = 2

\* C16: when SHOPIFY_STORE or SHOPIFY_ACCESS_TOKEN is absent, the uploader
\* sends no request (no themes lookup, no asset upload), reads no data file,
\* and ends without an error exit
C16_NoCredentialNoEffect ==
    ~(Truthy(SHOPIFY_STORE) /\ Truthy(ACCESS_TOKEN)) =>
        /\ requests = <<>>
        /\ reads = <<>>
        /\ upLog = <<>> /\ dataFiles = <<>>
        /\ upExit \in {<<>>, <<0>>}
        /\ upPc \in {"start", "done"}

\* the store is set, the token is not, data/ holds files, and the run is over
C16_Witness ==
    /\ Truthy(SHOPIFY_STORE) /\ ~Truthy(ACCESS_TOKEN)
    /\ Len(dataDirNames) = 3 /\ F_index \in {dataDirNames[i] : i \in 1..3}
    /\ upPc = "done" /\ upExit = <<0>>

\* -------------------------------------------- properties of the health check
\* the threshold is a number and the file was read
Counted == pricingFile.state = "json" /\ THRESHOLD(MIN_PRICING_ENTRIES) # <<>>
Below == Counted /\ EntryCount(pricingFile) < THRESHOLD(MIN_PRICING_ENTRIES)[1]
Reached == Counted /\ EntryCount(pricingFile) >= THRESHOLD(MIN_PRICING_ENTRIES)[1]

\* C17 as stated: the health check exits with 2 when pricing-raw.json is
\* missing, with 1 when the entries are fewer than the threshold in strict
\* mode, and with 0 when they reach the threshold or are fewer in non-strict
\* mode
C17_ExitCodesByMode ==
    hcPc = "done" =>
        /\ pricingFile.state = "missing" => hcExit = <<2>>
        /\ Below /\ strictMode => hcExit = <<1>>
        /\ Reached \/ (Below /\ ~strictMode) => hcExit = <<0>>

\* C17 as amended: the health check exits with 2 when pricing-raw.json is
\* missing, with 1 when the entries are fewer than the threshold, in whatever
\* mode, and with 0 when they reach the threshold
C17_ExitCodes ==
    hcPc = "done" =>
        /\ pricingFile.state = "missing" => hcExit = <<2>>
        /\ Below => hcExit = <<1>>
        /\ Reached => hcExit = <<0>>

\* a run in non-strict mode found 99 entries, one fewer than the default
\* threshold, and exited with 1
C17_Witness ==
    /\ hcPc = "done" /\ ~strictMode
    /\ MIN_PRICING_ENTRIES = Undef
    /\ EntryCount(pricingFile) = 99
    /\ hcExit = <<1>>

\* --------------------------------------------- properties of a failed merge
\* C18: a merge that starts while raw-cards.json or pricing-raw.json is
\* missing ends at once with exit code 1, and data/ holds after it exactly
\* the index, chunks and summary it held before, rewritten by no one
C18_MissingInputWritesNothing ==
    [][(mergePc = "start" /\ ~(rawCardsExists /\ pricingExists))
          => /\ mergePc' = "failed"
             /\ exitCode' = <<1>>
             /\ dataDir' = dataDir]_vars

\* the second run failed on a removed pricing-raw.json and the files of the
\* first run are still in data/
C18_Witness ==
    /\ mergePc = "failed" /\ exitCode = <<1>>
    /\ rawCardsExists /\ ~pricingExists
    /\ runsLeft = 0
    /\ dataDir.index # <<>> /\ dataDir.summary # <<>>
    /\ Len(dataDir.chunks) = 1

\* ------------------------------------------------ properties of the lookup
\* the keys of the mapping whose record bears the name of card i
NameSakes(i) ==
    {k \in DOMAIN pricingMap :
        Truthy(allCards[i].name) /\ pricingMap[k].name = allCards[i].name}

\* C19: every key the merger looks up for a card is one of the card's
\* candidate keys, an attached pricing is the record stored under the
\* candidate key it names, and a card none of whose candidate keys is in the
\* mapping stays without pricing whatever records bear its name
C19_ExactLookupOnly ==
    \A i \in Processed :
        LET c == Cands(i)
            keys == {c[k] : k \in 1..Len(c)}
            out == enrichedCards[i].pricing
        IN /\ \A k \in 1..Len(triedLog[i]) : triedLog[i][k] \in keys
           /\ out # NoPricing =>
                 /\ out[1].matchedKey \in keys \cap DOMAIN pricingMap
                 /\ out[1].key = pricingMap[out[1].matchedKey].key
                 /\ out[1].market = pricingMap[out[1].matchedKey].market
           /\ keys \cap DOMAIN pricingMap = {} => out = NoPricing

\* a card stays without pricing although the mapping holds a record that
\* bears its name, under a key that is none of the card's
C19_Witness ==
    \E i \in Processed :
        /\ enrichedCards[i].pricing = NoPricing
        /\ NameSakes(i) # {}

\* ----------------------------------------- properties of the set variants
\* the set code of a key: what stands before its first bar
SetPart(key) == SubSeq(key, 1, IndexOf(key, Bar) - 1)

RECURSIVE Collapse(_)
\* s with every run of equal neighbours reduced to one element
Collapse(s) ==
    IF Len(s) < 2 THEN s
    ELSE IF s[1] = s[2] THEN Collapse(Tail(s))
    ELSE <<s[1]>> \o Collapse(Tail(s))

\* the set codes of the keys looked up for card i, in the order of the lookups
TriedSetParts(i) ==
    Collapse([k \in 1..Len(triedLog[i]) |-> SetPart(triedLog[i][k])])

\* the set code the variants of card i are made from
SetCode(i) == Or(enrichedCards[i].set.id, ExpectedCode(allCards[i].id, Undef))

\* lowercase, non-alphanumerics stripped, trailing digits stripped
ThreeVariants(code) ==
    IF ~Truthy(code) THEN << <<>> >>
    ELSE LET s == toLowerCase(code)
         IN SelectSeq(<< s, SelectSeq(s, IsLowerAlnum), StripTrailingDigits(s) >>,
                      NonEmpty)

\* the three, with the swaps of "base" and "bs" before the third and the
\* code followed by "1" after it
SixVariants(code) ==
    IF ~Truthy(code) THEN << <<>> >>
    ELSE LET s == toLowerCase(code)
         IN SelectSeq(<< s, SelectSeq(s, IsLowerAlnum),
                         ReplaceFirst(s, <<"b","a","s","e">>, <<"b","s">>),
                         ReplaceFirst(s, <<"b","s">>, <<"b","a","s","e">>),
                         StripTrailingDigits(s),
                         s \o <<"1">> >>, NonEmpty)

Range(s) == {s[k] : k \in 1..Len(s)}

\* the keys of card i are looked up variant by variant of vs, all of them
\* when nothing matches, and a match is under a set code of vs
TriesFollow(i, vs) ==
    /\ IsPrefix(TriedSetParts(i), Collapse(vs))
    /\ enrichedCards[i].pricing = NoPricing => TriedSetParts(i) = Collapse(vs)
    /\ enrichedCards[i].pricing # NoPricing =>
          SetPart(enrichedCards[i].pricing[1].matchedKey) \in Range(vs)

\* C20 as stated: the set codes tried for a card are the lowercase code, the
\* code without non-alphanumerics and the code without trailing digits, in
\* this order and no other, so a price is never taken from another group id
C20_ThreeSetVariants ==
    \A i \in Processed : TriesFollow(i, ThreeVariants(SetCode(i)))

\* C20 as amended: the set codes tried for a card are, in this order, the
\* lowercase code, the code without non-alphanumerics, the code with its
\* first "base" replaced by "bs", the code with its first "bs" replaced by
\* "base", the code without trailing digits and the code followed by "1",
\* and a price is never taken from a group id outside these six
C20_SixSetVariants ==
    \A i \in Processed : TriesFollow(i, SixVariants(SetCode(i)))

\* a card of set base5 priced by the record stored under group id bs5
C20_Witness ==
    \E i \in Processed :
        /\ toLowerCase(Str(SetCode(i))) = S_base5
        /\ enrichedCards[i].pricing # NoPricing
        /\ SetPart(enrichedCards[i].pricing[1].matchedKey) = S_bs5
        /\ enrichedCards[i].pricing[1].groupId = S_bs5

\* -------------------------------------- properties of the number variants
\* the number of a key: what stands between its first and its second bar
NumberPart(key) ==
    LET rest == SubSeq(key, IndexOf(key, Bar) + 1, Len(key))
    IN SubSeq(rest, 1, IndexOf(rest, Bar) - 1)

\* the keys looked up for card i go through the numbers vs in their order,
\* each with every printing, and again for every set code; nothing is looked
\* up when vs is empty, and an unmatched card has gone through all of vs
TriesNumbers(i, vs) ==
    LET t == triedLog[i]
        np == Len(PrintingVariations(allCards[i]))
    IN IF vs = <<>> THEN t = <<>>
       ELSE /\ \A p \in 1..Len(t) :
                 NumberPart(t[p]) = vs[(((p - 1) \div np) % Len(vs)) + 1]
            /\ enrichedCards[i].pricing = NoPricing =>
                  Len(t) > 0 /\ Len(t) % (np * Len(vs)) = 0

\* uppercased, leading zeros stripped, padded to three, digits only; none
\* for a card without number
DigitVariants(num) ==
    IF ~Truthy(num) THEN <<>>
    ELSE LET s == toUpperCase(num)
         IN SelectSeq(<< s, StripLeadingZeros(s), padStart(s, 3, "0"),
                         SelectSeq(s, LAMBDA c : c \in Digits) >>, NonEmpty)

\* uppercased, leading zeros stripped, padded to three, letters and digits
\* only; the empty number alone for a card without number
AlnumVariants(num) ==
    IF ~Truthy(num) THEN << <<>> >>
    ELSE LET s == toUpperCase(num)
         IN SelectSeq(<< s, StripLeadingZeros(s), padStart(s, 3, "0"),
                         SelectSeq(s, LAMBDA c : c \in Digits \cup UpperSet) >>,
                      NonEmpty)

\* C21 as stated: the numbers tried for a card are its uppercased number, the
\* number without leading zeros, the number padded to three characters and
\* the digits of the number, in this order, and an empty number is not tried
C21_DigitsOnlyVariants ==
    \A i \in Processed : TriesNumbers(i, DigitVariants(allCards[i].number))

\* C21 as amended: the fourth number is the uppercased number without the
\* characters that are neither digits nor letters, and a card without number
\* is tried with the empty number
C21_AlnumVariants ==
    \A i \in Processed : TriesNumbers(i, AlnumVariants(allCards[i].number))

\* the card numbered a-1 is priced by the record stored under number A1
C21_Witness ==
    \E i \in Processed :
        /\ allCards[i].number = N_A_1
        /\ enrichedCards[i].pricing # NoPricing
        /\ NumberPart(enrichedCards[i].pricing[1].matchedKey) = N_A1

\* ------------------------------------ properties of the printing variants
\* the printing of a key: what stands between its second and its third bar
PrintingPart(key) ==
    LET rest == SubSeq(key, IndexOf(key, Bar) + 1, Len(key))
        tail == SubSeq(rest, IndexOf(rest, Bar) + 1, Len(rest))
    IN SubSeq(tail, 1, IndexOf(tail, Bar) - 1)

\* the declared printing of card i, else its variant, else the printing its
\* name tells
OwnOf(i) ==
    IF Truthy(allCards[i].printing) THEN allCards[i].printing
    ELSE IF Truthy(allCards[i].variant) THEN allCards[i].variant
    ELSE normalizePrintingLike(allCards[i].name)

PrintingOrder(i) == << toLowerCase(OwnOf(i)), W_normal, W_holo, W_reverse >>

\* the key of the set code and number of key k with the printing p
WithPrinting(k, p) ==
    SetPart(k) \o Bar \o NumberPart(k) \o Bar \o p \o Bar \o DEFAULT_LANG

\* C22: the keys of a card are looked up with the card's own printing, then
\* normal, then holo, then reverse, for every set code and number; so the
\* matched key has the first printing of this order that is in the mapping
\* with the set code and number of the match
C22_PrintingOrder ==
    \A i \in Processed :
        LET t == triedLog[i]
            order == PrintingOrder(i)
        IN /\ \A p \in 1..Len(t) : PrintingPart(t[p]) = order[((p - 1) % 4) + 1]
           /\ enrichedCards[i].pricing = NoPricing => Len(t) > 0 /\ Len(t) % 4 = 0
           /\ enrichedCards[i].pricing # NoPricing =>
                 LET k == enrichedCards[i].pricing[1].matchedKey
                     at == ((Len(t) - 1) % 4) + 1
                 IN /\ k = t[Len(t)]
                    /\ \A q \in 1..(at - 1) :
                          WithPrinting(k, order[q]) \notin DOMAIN pricingMap

\* a card declared Reverse takes the reverse record although the normal
\* record of the same set and number is in the mapping
C22_Witness ==
    \E i \in Processed :
        /\ allCards[i].printing = P_Reverse
        /\ enrichedCards[i].pricing # NoPricing
        /\ PrintingPart(enrichedCards[i].pricing[1].matchedKey) = W_reverse
        /\ WithPrinting(enrichedCards[i].pricing[1].matchedKey, W_normal)
              \in DOMAIN pricingMap

\* ------------------------------------ properties of the pricing mapping
\* every record of the mapping sits under its own key field, the record of
\* a key is the one of the last row that gave this key, and the written
\* pricingEntries is the number of keys, at most the number of rows
MappingIsKeyed ==
    /\ \A k \in DOMAIN pricing :
          /\ pricing[k].key = k
          /\ LET from == {i \in 1..Len(rowLog) : rowLog[i].key = k}
             IN from # {} /\ pricing[k] = rowLog[CHOOSE i \in from :
                                                    \A j \in from : j <= i]
    /\ \A i \in 1..Len(rowLog) : rowLog[i].key \in DOMAIN pricing
    /\ output # <<>> =>
          /\ output[1].pricing = pricing
          /\ output[1].pricingEntries = Cardinality(DOMAIN pricing)
          /\ output[1].pricingEntries <= Len(rows)

Puts == {i \in 1..Len(requests) : requests[i].method = "PUT"}

\* the number of files sent whose answer is awaited
Awaited == IF upPc = "waiting" /\ themeId # <<>> THEN 1 ELSE 0

\* C24: a run of the card fetcher makes one request per entry of the set
\* list, failed or not, and goes on to the next entry; only the failure of
\* the set list ends it with an error.  A run of the uploader looks the theme
\* up at most once and sends every file at most once, failed or not, and goes
\* on to the next file; it ends after the last file
C24_NoRetry ==
    /\ Len(fcLog) <= Len(fcSets)
    /\ fcPc = "done" => Len(fcLog) = Len(fcSets)
    /\ fcExit = <<1>> => fcLog = <<>> /\ rawCardsFile = <<>>
    /\ Cardinality({i \in 1..Len(requests) : requests[i].method = "GET"}) <= 1
    /\ \A i, j \in Puts : i # j => requests[i].file # requests[j].file
    /\ \A i \in Puts : \E k \in 1..(Len(upLog) + Awaited) :
                            dataFiles[k] = requests[i].file
    /\ Cardinality(Puts) <= Len(upLog) + Awaited
    /\ upPc = "done" /\ dataFiles # <<>> => Len(upLog) = Len(dataFiles)

\* the first file was refused and was sent once; the uploader went on to the
\* second file and has ended
C24_Witness ==
    /\ upPc = "done"
    /\ Len(upLog) >= 2
    /\ upLog[1].outcome = "notOk"
    /\ Cardinality({i \in Puts : requests[i].file = upLog[1].file}) = 1
    /\ upLog[2].outcome = "ok"

\* ------------------------------------------ properties of the merge inputs
\* the pricing of every card written carries the fields of the record under
\* its matched key as the mapping holds them, the group name of the record
\* or else of the card's own set, and no record of the mapping bears a
\* matched key
CopiesOnly ==
    /\ \A k \in DOMAIN pricingMap : "matchedKey" \notin DOMAIN pricingMap[k]
    /\ \A i \in Processed :
          enrichedCards[i].pricing # NoPricing =>
              LET p == enrichedCards[i].pricing[1]
                  r == pricingMap[p.matchedKey]
              IN /\ \A f \in DOMAIN r \ {"groupName"} : p[f] = r[f]
                 /\ p.groupName = IF r.groupName # <<>> THEN r.groupName
                                  ELSE Str(enrichedCards[i].set.name)

\* C25: no step of the merge changes the pricing mapping or an input card,
\* and what the merger adds to the pricing of a card (matchedKey, groupName)
\* shows neither in the mapping nor in the pricing of another card matched
\* to the same record
C25_InputsUnchanged ==
    [][/\ pricingMap' = pricingMap
       /\ allCards' = allCards
       /\ CopiesOnly']_vars

\* two cards took the same record, which has no group name, and each bears
\* the name of its own set
C25_Witness ==
    /\ Len(enrichedCards) = 2
    /\ enrichedCards[1].pricing # NoPricing /\ enrichedCards[2].pricing # NoPricing
    /\ enrichedCards[1].pricing[1].matchedKey = enrichedCards[2].pricing[1].matchedKey
    /\ pricingMap[enrichedCards[1].pricing[1].matchedKey].groupName = <<>>
    /\ enrichedCards[1].pricing[1].groupName = T_TeamRocket
    /\ enrichedCards[2].pricing[1].groupName = T_Promo

\* ------------------------------------------ properties of the source pick
AllRowsAre(rs, r) == \A i \in 1..Len(rs) : rs[i] = r

\* what every step of the pricing fetcher keeps, whatever becomes of an
\* existing file that is the only source: the URL goes before the path, no
\* source at all exits with 2, a source without rows exits with 1, and a
\* run that exits has written nothing
PrecedenceStep ==
    /\ pricingPc = "start" /\ Truthy(TCGCSV_URL) =>
          /\ pricingPc' \in {"loop", "exit1", "waiting"}
          /\ AllRowsAre(rows', UrlRow)
    /\ pricingPc = "start" /\ ~Truthy(TCGCSV_URL) /\ Truthy(argv2) =>
          /\ pricingPc' \in {"loop", "exit1"}
          /\ AllRowsAre(rows', LocalRow)
    /\ pricingPc = "start" /\ ~Truthy(TCGCSV_URL) /\ ~Truthy(argv2)
          /\ existingFile = "missing" => pricingPc' = "exit2"
    /\ pricingPc = "loop" /\ rows = <<>> => pricingPc' = "exit1"
    /\ pricingPc' \in {"exit0", "exit1", "exit2"} => output' = <<>>

OnlyExisting ==
    /\ pricingPc = "start" /\ ~Truthy(TCGCSV_URL) /\ ~Truthy(argv2)
    /\ existingFile # "missing"

\* C27 as stated: the source is the URL of TCGCSV_URL when set, else the
\* file of the argument, else the existing data/pricing-raw.json, and then
\* the run exits with 0; without any source it exits with 2; a failed fetch
\* or a source without rows exits with 1; no run that exits has written
C27_ExistingFileExitsZero ==
    [][/\ PrecedenceStep
       /\ OnlyExisting => pricingPc' = "exit0"]_vars

\* C27 as amended: as stated, but with the existing file as the only source
\* the run exits with 0 when the file parses as JSON and with 1 when not
C27_ExistingFileIsParsed ==
    [][/\ PrecedenceStep
       /\ OnlyExisting =>
             pricingPc' = IF existingFile = "json" THEN "exit0" ELSE "exit1"]_vars

\* both the URL and the path were given and the rows written are upstream's
C27_Witness ==
    /\ Truthy(TCGCSV_URL) /\ Truthy(argv2)
    /\ pricingPc = "written"
    /\ Len(rowLog) = 2 /\ rows = <<UrlRow, UrlRow>>
    /\ output # <<>>

\* ------------------------------------------------ properties of the waiting
\* the stage that runs has come to its end, by finishing or by exiting
StageEnded ==
    \/ fcPc \in {"done", "failed"}
    \/ upPc = "done"
    \/ pricingPc \in {"written", "exit0", "exit1", "exit2"}

\* the stage that runs awaits an answer no timeout will replace
StageWaits == upPc = "waiting" \/ pricingPc = "waiting"

\* the card fetcher, whose requests carry the timeout of fetch-cards.js line
\* 28, comes to its end whatever the host does
FetcherEnds == fcPc # "idle" ~> fcPc \in {"done", "failed"}

\* C26: every stage that calls upstream (the card fetcher, the pricing
\* fetcher, the uploader) eventually finishes or exits, also when a host
\* never answers, since every call gives way to a failure after a fixed time
C26_EveryStageEnds == <>StageEnded

\* --------------------------------------- properties of the unresolved set
\* card i has no embedded set and its inferred code names no registry entry
Unregistered(i) == ~hasKeys(allCards[i].set) /\ RegistryHits(i) = {}

\* C28 as stated: a card without embedded set whose inferred code is not in
\* the registry gets the empty set, no key looked up for it bears a set
\* code, and its pricing is null
C28_NoKeyFromUnregisteredCode ==
    \A i \in Processed :
        Unregistered(i) =>
            /\ enrichedCards[i].set = EmptySet
            /\ \A k \in 1..Len(triedLog[i]) : SetPart(triedLog[i][k]) = <<>>
            /\ enrichedCards[i].pricing = NoPricing

\* C28 as amended: such a card gets the empty set, and the keys looked up
\* for it are built from the variants of the code that stands before the
\* first hyphen of its id, registered or not (the image URL gives none); its
\* pricing is null exactly when none of the keys looked up is in the
\* mapping, and otherwise is the record of the key that matched
C28_KeysFromIdCode ==
    \A i \in Processed :
        Unregistered(i) =>
            /\ enrichedCards[i].set = EmptySet
            /\ TriesFollow(i, SixVariants(IdPrefix(allCards[i].id)))
            /\ (enrichedCards[i].pricing = NoPricing)
                  <=> (Range(triedLog[i]) \cap DOMAIN pricingMap = {})
            /\ enrichedCards[i].pricing # NoPricing =>
                  enrichedCards[i].pricing[1].market
                     = pricingMap[triedLog[i][Len(triedLog[i])]].market

\* the card zz9-1, whose code zz9 the registry does not hold, is written
\* with the empty set and the price of the record of group zz9
C28_Witness ==
    \E i \in Processed :
        /\ mergePc = "done"
        /\ Unregistered(i)
        /\ IdPrefix(allCards[i].id) = S_zz9
        /\ enrichedCards[i].set = EmptySet
        /\ enrichedCards[i].pricing # NoPricing
        /\ enrichedCards[i].pricing[1].groupId = S_zz9

\* ------------------------------------------- properties of the chunk files
\* C29: after any sequence of merge runs on one data directory, the chunk
\* files present are those of the most recent run, numbered 1..totalChunks
\* of its summary and each carrying that totalChunks: no chunk file of a
\* higher number is left from an earlier run
C29_OnlyChunksOfLastRun ==
    mergePc = "done" =>
        /\ Len(dataDir.chunks) = SummaryFile.totalChunks
        /\ \A j \in 1..Len(dataDir.chunks) :
              dataDir.chunks[j].totalChunks = SummaryFile.totalChunks

\* ------------------------------------------- properties of the asset keys
W_assets == <<"a","s","s","e","t","s","/">>
W_tcg == <<"t","c","g","-">>

RECURSIVE Bare(_)
\* a file name without the prefixes "tcg-" it begins with
Bare(f) == IF startsWith(f, W_tcg) THEN Bare(SubSeq(f, 5, Len(f))) ELSE f

\* f is g with the prefix put before it, and g has none
PrefixedTwin(f, g) == f = W_tcg \o g /\ ~startsWith(g, W_tcg)

\* no upload is of a file whose name contains "raw-"
NoRawUploaded == \A i \in Puts : ~includes(requests[i].file, <<"r","a","w","-">>)

====
